---- MODULE Spec2Model ----
(***************************************************************************)
(* Order processing pipeline of api-com-solid: the Order aggregate, the    *)
(* validation chain, the payment strategies and the CreateOrderUseCase.    *)
(*                                                                         *)
(* The specifications share the variables; each leaves idle those of the   *)
(* others:                                                                 *)
(*   SpecOrder     - one Order entity under arbitrary calls of its methods *)
(*   SpecChain     - OrderValidationHandler.handle on a chain of handlers  *)
(*   SpecCreate    - concurrent CreateOrderUseCase.execute runs against    *)
(*                   the user, product and order repositories              *)
(*   SpecFault     - SpecCreate with repositories that may fail            *)
(*   SpecUnits     - single calls of strategies, factory and handlers      *)
(*   SpecUpdate    - concurrent UpdateOrderStatusUseCase.execute runs      *)
(*   SpecProduct   - one Product entity under calls of its stock methods   *)
(*   SpecAlias     - an Order entity and the references a caller holds     *)
(*   SpecCache     - CachedUserRepository over a user repository           *)
(*   SpecObservers - OrderStatusManager and its observers                  *)
(***************************************************************************)
EXTENDS Integers, Sequences, FiniteSets, TLC

VARIABLES
  order,      \* SpecOrder: the Order entity [status, paymentStatus, items]
  lastCall,   \* SpecOrder: the last method called on it and what it threw
  handlers,   \* SpecChain: validate result of each handler of the chain
  chain,      \* SpecChain: the run of handle over the chain
  products,   \* SpecCreate: product table [id -> [stock, status]]
  products0,  \* SpecCreate: the product table before any request ran
  orders,     \* SpecCreate: order table, the set of persisted orders
  req,        \* SpecCreate: per request, its input and its local state
  stocked,    \* SpecProduct: the Product entity [stock, status]
  heap,       \* SpecAlias: the arrays and line objects, by reference
  held,       \* SpecAlias: the array references the caller holds
  users,      \* SpecCache: the user table of the wrapped repository
  cache,      \* SpecCache: the cache map, key -> value
  observers,  \* SpecObservers: the observers array of the manager
  updates,    \* SpecObservers: the update calls made in the last step
  inventory   \* SpecObservers: quantities asked of the inventory service

\* The variables of the specifications other than SpecOrder, SpecChain and
\* SpecCreate.
others == <<stocked, heap, held, users, cache, observers, updates, inventory>>

vars == <<order, lastCall, handlers, chain, products, products0, orders, req, others>>

(***************************************************************************)
(* Bounds                                                                  *)
(***************************************************************************)
MaxQty == 2

MaxHandlers == 3

NumReq == 2

MaxStock == 2

NumUpd == 2

MaxArrays == 2

MaxLines == 3

MaxInventory == 1

ProductIds == {"p1", "p2"}

NoError == "none"

(***************************************************************************)
(* Order entity (src/src/domain/entities/Order.ts)                         *)
(***************************************************************************)
OrderStatus == {"PENDING", "CONFIRMED", "PROCESSING", "SHIPPED", "DELIVERED", "CANCELLED"}

PaymentStatus == {"PENDING", "COMPLETED", "FAILED", "CANCELLED"}

PaymentMethod == {"CREDIT_CARD", "PIX", "BOLETO"}

\* An OrderItem; the id field is carried along unchanged by every method
\* and is left out.
OrderItem(p, q, pr) == [productId |-> p, quantity |-> q, price |-> pr]

\* A method call ends by returning (error = NoError) or by throwing; o is
\* the entity as the call leaves it.
Return(o) == [o |-> o, error |-> NoError]

Throw(o, msg) == [o |-> o, error |-> msg]

RECURSIVE SumItems(_)
SumItems(its) ==
  IF its = <<>> THEN 0
  ELSE Head(its).price * Head(its).quantity + SumItems(Tail(its))

\* Mutant: the quantities are left out of the sum.
total_pricesOnly(o) ==
  LET RECURSIVE prices(_)
      prices(its) == IF its = <<>> THEN 0 ELSE Head(its).price + prices(Tail(its))
  IN  prices(o.items)

\* get total
total(o) == SumItems(o.items)

\* Array.prototype.findIndex: the first index whose productId matches, 0
\* when there is none (findIndex's -1).
findIndex(its, p) ==
  IF \E i \in 1..Len(its) : its[i].productId = p
  THEN CHOOSE i \in 1..Len(its) :
         /\ its[i].productId = p
         /\ \A j \in 1..(i - 1) : its[j].productId # p
  ELSE 0

\* Array.prototype.splice(index, 1)
splice(its, i) == [j \in 1..(Len(its) - 1) |-> IF j < i THEN its[j] ELSE its[j + 1]]

\* validateOrder, run by the constructor (the userId is always given here):
\* the message of the first failing check, NoError when all pass.
validateOrder(its) ==
  IF Len(its) = 0 THEN "Order must have at least one item"
  ELSE IF \E i \in 1..Len(its) : its[i].quantity <= 0 \/ its[i].price <= 0
       THEN LET i == CHOOSE k \in 1..Len(its) :
                       /\ its[k].quantity <= 0 \/ its[k].price <= 0
                       /\ \A j \in 1..(k - 1) : its[j].quantity > 0 /\ its[j].price > 0
            IN IF its[i].quantity <= 0
               THEN "Item quantity must be greater than 0"
               ELSE "Item price must be greater than 0"
  ELSE NoError

\* new Order(id, userId, items, PENDING, method, PENDING)
NewOrder(its, method) ==
  [status |-> "PENDING", paymentStatus |-> "PENDING", items |-> its,
   paymentMethod |-> method]

\* Mutant: cancel allowed at every stage.
canBeCancelled_always(o) == TRUE

canBeCancelled(o) == o.status = "PENDING" \/ o.status = "CONFIRMED"

\* Mutant: the payment status is not looked at.
canBeShipped_statusOnly(o) == o.status = "PROCESSING"

\* Mutant: only a failed payment keeps the order from shipping.
canBeShipped_unlessFailed(o) == o.status = "PROCESSING" /\ o.paymentStatus # "FAILED"

canBeShipped(o) == o.status = "PROCESSING" /\ o.paymentStatus = "COMPLETED"

\* Mutant: the negated comparison.
canBeDelivered_notShipped(o) == o.status # "SHIPPED"

canBeDelivered(o) == o.status = "SHIPPED"

confirm(o) ==
  IF o.status # "PENDING" THEN Throw(o, "Only pending orders can be confirmed")
  ELSE Return([o EXCEPT !.status = "CONFIRMED"])

startProcessing(o) ==
  IF o.status # "CONFIRMED" THEN Throw(o, "Only confirmed orders can start processing")
  ELSE Return([o EXCEPT !.status = "PROCESSING"])

ship(o) ==
  IF ~canBeShipped(o) THEN Throw(o, "Order cannot be shipped. Check status and payment.")
  ELSE Return([o EXCEPT !.status = "SHIPPED"])

deliver(o) ==
  IF ~canBeDelivered(o) THEN Throw(o, "Only shipped orders can be delivered")
  ELSE Return([o EXCEPT !.status = "DELIVERED"])

cancel(o) ==
  IF ~canBeCancelled(o) THEN Throw(o, "Order cannot be cancelled at this stage")
  ELSE Return([o EXCEPT !.status = "CANCELLED", !.paymentStatus = "CANCELLED"])

completePayment(o) ==
  IF o.paymentStatus # "PENDING" THEN Throw(o, "Payment is not pending")
  ELSE Return([o EXCEPT !.paymentStatus = "COMPLETED"])

failPayment(o) ==
  IF o.paymentStatus # "PENDING" THEN Throw(o, "Payment is not pending")
  ELSE Return([o EXCEPT !.paymentStatus = "FAILED"])

\* Mutant: the item is pushed without looking for its product.
addItem_alwaysPushes(o, item) ==
  IF o.status # "PENDING" THEN Throw(o, "Cannot modify confirmed orders")
  ELSE Return([o EXCEPT !.items = Append(@, item)])

addItem(o, item) ==
  IF o.status # "PENDING" THEN Throw(o, "Cannot modify confirmed orders")
  ELSE LET i == findIndex(o.items, item.productId) IN
       IF i # 0
       THEN Return([o EXCEPT !.items[i].quantity = @ + item.quantity])
       ELSE Return([o EXCEPT !.items = Append(@, item)])

\* The line is spliced out before the emptiness check: the throw leaves the
\* entity with the line already removed.
removeItem(o, p) ==
  IF o.status # "PENDING" THEN Throw(o, "Cannot modify confirmed orders")
  ELSE LET i == findIndex(o.items, p) IN
       IF i = 0 THEN Throw(o, "Item not found in order")
       ELSE LET spliced == [o EXCEPT !.items = splice(@, i)] IN
            IF Len(spliced.items) = 0
            THEN Throw(spliced, "Order must have at least one item")
            ELSE Return(spliced)

\* Mutant: the status is not looked at.
updateItemQuantity_anyStatus(o, p, q) ==
  IF q <= 0 THEN Throw(o, "Quantity must be greater than 0")
  ELSE LET i == findIndex(o.items, p) IN
       IF i = 0 THEN Throw(o, "Item not found in order")
       ELSE Return([o EXCEPT !.items[i].quantity = q])

updateItemQuantity(o, p, q) ==
  IF o.status # "PENDING" THEN Throw(o, "Cannot modify confirmed orders")
  ELSE IF q <= 0 THEN Throw(o, "Quantity must be greater than 0")
  ELSE LET i == findIndex(o.items, p) IN
       IF i = 0 THEN Throw(o, "Item not found in order")
       ELSE Return([o EXCEPT !.items[i].quantity = q])

(***************************************************************************)
(* SpecOrder: one Order entity, built by the constructor in                *)
(* PENDING/PENDING, under any sequence of calls of its methods.            *)
(***************************************************************************)
ArgQty == (0 - 1)..MaxQty

\* Prices given to the constructor and to addItem: a priced line and a
\* free one (addItem does not look at the price).
ArgPrice == {0, 3}

\* Quantities a line is let to reach.
QtyRange == (0 - 1)..MaxQty

ItemLists ==
  LET Item == {OrderItem(p, q, pr) : p \in ProductIds, q \in ArgQty, pr \in ArgPrice}
  IN  {<<a>> : a \in Item} \cup {<<a, b>> : a \in Item, b \in Item}

\* The other specifications' variables, idle under SpecOrder.
IdleChain == handlers = <<>> /\ chain = [pc |-> "idle"]

IdleCreate == products = <<>> /\ products0 = <<>> /\ orders = {} /\ req = <<>>

IdleOrder == order = <<>> /\ lastCall = [op |-> "none", error |-> NoError]

IdleProduct == stocked = <<>>

IdleAlias == heap = <<>> /\ held = {}

IdleCache == users = <<>> /\ cache = <<>>

IdleObservers == observers = <<>> /\ updates = <<>> /\ inventory = <<>>

IdleOthers == IdleProduct /\ IdleAlias /\ IdleCache /\ IdleObservers

InitOrder ==
  /\ \E its \in ItemLists :
       /\ validateOrder(its) = NoError
       /\ order = NewOrder(its, "PIX")
  /\ lastCall = [op |-> "new", error |-> NoError]
  /\ IdleChain
  /\ IdleCreate
  /\ IdleOthers

\* A call of a method: the entity is left as the call left it, and the
\* outcome is recorded.
Call(op, res) ==
  /\ \A i \in 1..Len(res.o.items) : res.o.items[i].quantity \in QtyRange
  /\ order' = res.o
  /\ lastCall' = [op |-> op, error |-> res.error]
  /\ UNCHANGED <<handlers, chain, products, products0, orders, req, others>>

Confirm == Call("confirm", confirm(order))

StartProcessing == Call("startProcessing", startProcessing(order))

Ship == Call("ship", ship(order))

Deliver == Call("deliver", deliver(order))

Cancel == Call("cancel", cancel(order))

CompletePayment == Call("completePayment", completePayment(order))

FailPayment == Call("failPayment", failPayment(order))

AddItem ==
  \E p \in ProductIds, q \in ArgQty, pr \in ArgPrice :
    Call("addItem", addItem(order, OrderItem(p, q, pr)))

RemoveItem == \E p \in ProductIds : Call("removeItem", removeItem(order, p))

UpdateItemQuantity ==
  \E p \in ProductIds, q \in ArgQty :
    Call("updateItemQuantity", updateItemQuantity(order, p, q))

NextOrder ==
  \/ Confirm
  \/ StartProcessing
  \/ Ship
  \/ Deliver
  \/ Cancel
  \/ CompletePayment
  \/ FailPayment
  \/ AddItem
  \/ RemoveItem
  \/ UpdateItemQuantity

SpecOrder == InitOrder /\ [][NextOrder]_vars

(***************************************************************************)
(* Claims on the Order entity, checked under SpecOrder                     *)
(***************************************************************************)
\* The transition table of the order status: <<from, operation, to>>.
TransitionTable ==
  { <<"PENDING", "confirm", "CONFIRMED">>,
    <<"CONFIRMED", "startProcessing", "PROCESSING">>,
    <<"PROCESSING", "ship", "SHIPPED">>,
    <<"SHIPPED", "deliver", "DELIVERED">>,
    <<"PENDING", "cancel", "CANCELLED">>,
    <<"CONFIRMED", "cancel", "CANCELLED">> }

\* C1: every change of an order's status is a row of the transition table,
\* made by the operation of that row; no other status change happens.
C1_StatusChangesFollowTable ==
  [][order'.status # order.status =>
       <<order.status, lastCall'.op, order'.status>> \in TransitionTable]_vars

\* C1 witness: the whole path Pending -> ... -> Delivered has been walked.
C1_Witness == order.status = "DELIVERED" /\ lastCall.op = "deliver"

TransitionOps ==
  {"confirm", "startProcessing", "ship", "deliver", "cancel",
   "completePayment", "failPayment"}

\* The guard of each transition operation, as the transition table states it.
Guard(op, o) ==
  CASE op = "confirm" -> o.status = "PENDING"
    [] op = "startProcessing" -> o.status = "CONFIRMED"
    [] op = "ship" -> o.status = "PROCESSING" /\ o.paymentStatus = "COMPLETED"
    [] op = "deliver" -> o.status = "SHIPPED"
    [] op = "cancel" -> o.status \in {"PENDING", "CONFIRMED"}
    [] op = "completePayment" -> o.paymentStatus = "PENDING"
    [] op = "failPayment" -> o.paymentStatus = "PENDING"

\* C2: a transition operation called while its guard is false throws and
\* leaves the status, the payment status and the lines as they were.
C2_GuardFailureThrowsAndKeepsState ==
  [][(lastCall'.op \in TransitionOps /\ ~Guard(lastCall'.op, order)) =>
       (lastCall'.error # NoError /\ order' = order)]_vars

\* C2 witness: ship was called on a Processing order whose payment is not
\* completed, and threw.
C2_Witness ==
  /\ lastCall.op = "ship"
  /\ lastCall.error # NoError
  /\ order.status = "PROCESSING"
  /\ order.paymentStatus # "COMPLETED"

\* C3: once the status is Delivered or Cancelled no operation changes it.
C3_TerminalStatusNeverChanges ==
  [][order.status \in {"DELIVERED", "CANCELLED"} => order'.status = order.status]_vars

\* C3 witness: cancel was called on a Delivered order (and threw).
C3_Witness ==
  /\ order.status = "DELIVERED"
  /\ lastCall.op = "cancel"
  /\ lastCall.error # NoError

\* C11: an order that is not Cancelled holds at least one line.
C11_NotCancelledHasALine == order.status # "CANCELLED" => Len(order.items) >= 1

\* C12: every line of an order has a quantity and a price above zero.
C12_LinesArePositive ==
  \A i \in 1..Len(order.items) :
    order.items[i].quantity > 0 /\ order.items[i].price > 0

LineOps == {"addItem", "removeItem", "updateItemQuantity"}

\* C13: addItem, removeItem and updateItemQuantity called in a status other
\* than Pending throw and leave the order as it was; they return normally
\* only from Pending, and no operation changes the lines of an order that
\* has left Pending.
C13_LinesLockedOutsidePending ==
  [][/\ lastCall'.op \in LineOps =>
          /\ order.status # "PENDING" =>
               (lastCall'.error = "Cannot modify confirmed orders" /\ order' = order)
          /\ lastCall'.error = NoError => order.status = "PENDING"
     /\ order.status # "PENDING" => order'.items = order.items]_vars

\* C13 witness: updateItemQuantity was called on a Shipped order and threw.
C13_Witness ==
  /\ order.status = "SHIPPED"
  /\ lastCall.op = "updateItemQuantity"
  /\ lastCall.error = "Cannot modify confirmed orders"

\* C14: the payment status changes only from Pending; a payment status of
\* Completed, Failed or Cancelled never changes.
C14_PaymentStatusChangesOnlyFromPending ==
  [][order'.paymentStatus # order.paymentStatus => order.paymentStatus = "PENDING"]_vars

\* C15: ship returns normally only from Processing with the payment
\* Completed, and an order that is Shipped or Delivered has its payment
\* Completed.
C15_ShippedOrderIsPaid ==
  [][/\ (lastCall'.op = "ship" /\ lastCall'.error = NoError) =>
          (order.status = "PROCESSING" /\ order.paymentStatus = "COMPLETED")
     /\ order'.status \in {"SHIPPED", "DELIVERED"} => order'.paymentStatus = "COMPLETED"]_vars

\* C15 witness: ship has just returned normally.
C15_Witness ==
  /\ lastCall.op = "ship"
  /\ lastCall.error = NoError
  /\ order.status = "SHIPPED"

\* The sum of quantity x price over the lines, added up from the last line
\* to the first.
RECURSIVE LineSum(_, _)
LineSum(its, k) ==
  IF k = 0 THEN 0 ELSE its[k].quantity * its[k].price + LineSum(its, k - 1)

\* C16: total is the sum over the current lines of quantity x price, after
\* line operations that returned and after ones that threw.
C16_TotalIsSumOfLines == total(order) = LineSum(order.items, Len(order.items))

\* C16 witness: a line operation has thrown on an order of two priced
\* lines, one of them of quantity above one.
C16_Witness ==
  /\ lastCall.op \in LineOps
  /\ lastCall.error # NoError
  /\ Len(order.items) = 2
  /\ \A i \in 1..2 : order.items[i].price > 0
  /\ \E i \in 1..2 : order.items[i].quantity > 1

\* The pairs of lines of the same product.
SameProductPairs(its) ==
  {<<i, j>> \in (1..Len(its)) \X (1..Len(its)) :
     i < j /\ its[i].productId = its[j].productId}

\* C17: addItem that returns normally, for a product already on the order,
\* keeps the number of lines and adds the item's quantity to the first line
\* of that product, touching nothing else; for a product not on the order
\* it appends the item as one new line. It never adds a second line of a
\* product. The item is any argument that gives the step taken.
C17_AddItemMergesOrAppends ==
  [][(lastCall'.op = "addItem" /\ lastCall'.error = NoError) =>
       \A p \in ProductIds, q \in ArgQty, pr \in ArgPrice :
         LET item == OrderItem(p, q, pr)
             its == order.items
             present == {i \in 1..Len(its) : its[i].productId = p}
         IN  addItem(order, item) = [o |-> order', error |-> NoError]
             => /\ present # {} =>
                     LET i == CHOOSE k \in present : \A j \in present : k <= j IN
                     order'.items = [its EXCEPT ![i].quantity = its[i].quantity + q]
                /\ present = {} => order'.items = Append(its, item)
                /\ SameProductPairs(order'.items) = SameProductPairs(its)]_vars

\* C17 witness: the last call is an addItem that returned, on an order of
\* two lines of different products whose first line is at the largest
\* quantity.
C17_Witness ==
  /\ lastCall.op = "addItem"
  /\ lastCall.error = NoError
  /\ Len(order.items) = 2
  /\ order.items[1].productId # order.items[2].productId
  /\ order.items[1].quantity = MaxQty

(***************************************************************************)
(* Validation chain (OrderValidationHandler, part_004)                     *)
(***************************************************************************)
\* A ValidationResult. metadata is a function from keys to values; an
\* absent metadata spreads as the empty object.
ValidationResult(valid, errs, warns, meta) ==
  [isValid |-> valid, errors |-> errs, warnings |-> warns, metadata |-> meta]

NoMetadata == [k \in {} |-> 0]

\* { ...a, ...b }
spread(a, b) ==
  [k \in (DOMAIN a) \cup (DOMAIN b) |-> IF k \in DOMAIN b THEN b[k] ELSE a[k]]

\* Mutant: the current handler's warnings are dropped and its metadata
\* wins on a key collision.
mergeResults_currentLoses(current, next) ==
  [isValid |-> current.isValid /\ next.isValid,
   errors |-> current.errors \o next.errors,
   warnings |-> next.warnings,
   metadata |-> spread(next.metadata, current.metadata)]

\* Mutant: the warnings are kept only when the current result is valid.
mergeResults_dropsWarningsOfInvalid(current, next) ==
  [isValid |-> current.isValid /\ next.isValid,
   errors |-> current.errors \o next.errors,
   warnings |-> IF current.isValid THEN current.warnings \o next.warnings ELSE <<>>,
   metadata |-> spread(current.metadata, next.metadata)]

mergeResults(current, next) ==
  [isValid |-> current.isValid /\ next.isValid,
   errors |-> current.errors \o next.errors,
   warnings |-> current.warnings \o next.warnings,
   metadata |-> spread(current.metadata, next.metadata)]

\* Mutant: the next handler is called whatever the local result.
delegates_always(hasNext, result) == hasNext

\* handle's test: this.nextHandler && result.isValid
delegates(hasNext, result) == hasNext /\ result.isValid

\* handle of the handler at position i of a chain whose handlers' validate
\* results on the context are rs.
RECURSIVE handle(_, _)
handle(rs, i) ==
  LET result == rs[i] IN
  IF delegates(i < Len(rs), result)
  THEN mergeResults(result, handle(rs, i + 1))
  ELSE result

(***************************************************************************)
(* SpecChain: one run of handle on a chain of 1..MaxHandlers handlers,     *)
(* step by step: handle calls validate, then either returns or calls the   *)
(* next handler's handle and merges what that returns.                     *)
(***************************************************************************)
SharedKey == <<"shared", 0>>

OwnKey(i) == <<"own", i>>

\* What the validate of handler i may return: isValid is "no errors", as
\* in every handler of the repository; errors, warnings and metadata
\* values carry the handler's position; metadata has the handler's own key
\* or a key every handler may write.
ValidateResults(i) ==
  { ValidationResult(errs = <<>>, errs, warns, meta) :
      errs \in {<<>>, << <<"error", i>> >>},
      warns \in {<<>>, << <<"warning", i>> >>},
      meta \in {NoMetadata, [k \in {OwnKey(i)} |-> i], [k \in {SharedKey} |-> i]} }

RECURSIVE ChainsOfLength(_)
ChainsOfLength(n) ==
  IF n = 0 THEN {<<>>}
  ELSE {Append(rs, result) : rs \in ChainsOfLength(n - 1), result \in ValidateResults(n)}

InitChain ==
  /\ \E n \in 1..MaxHandlers : handlers \in ChainsOfLength(n)
  /\ chain = [pc |-> "validate", pos |-> 1, invoked |-> <<>>, result |-> NoMetadata]
  /\ IdleOrder
  /\ IdleCreate
  /\ IdleOthers

\* handle of the handler at chain.pos runs validate and either calls the
\* next handler's handle or returns the local result to its caller.
ChainValidate ==
  /\ chain.pc = "validate"
  /\ LET i == chain.pos
         result == handlers[i]
     IN  IF delegates(i < Len(handlers), result)
         THEN chain' = [chain EXCEPT !.invoked = Append(@, i), !.pos = i + 1]
         ELSE chain' = [chain EXCEPT !.invoked = Append(@, i),
                                     !.pos = i - 1,
                                     !.result = result,
                                     !.pc = IF i = 1 THEN "done" ELSE "return"]
  /\ UNCHANGED <<order, lastCall, handlers, products, products0, orders, req, others>>

\* The handle of handler chain.pos gets the next handler's result, merges
\* it into its own and returns.
ChainReturn ==
  /\ chain.pc = "return"
  /\ LET i == chain.pos IN
       chain' = [chain EXCEPT !.result = mergeResults(handlers[i], chain.result),
                              !.pos = i - 1,
                              !.pc = IF i = 1 THEN "done" ELSE "return"]
  /\ UNCHANGED <<order, lastCall, handlers, products, products0, orders, req, others>>

NextChain ==
  \/ ChainValidate
  \/ ChainReturn

SpecChain == InitChain /\ [][NextChain]_vars

\* The step-by-step run returns what the recursive definition computes.
ChainRunIsHandle == chain.pc = "done" => chain.result = handle(handlers, 1)

(***************************************************************************)
(* Claims on the validation chain, checked under SpecChain                 *)
(***************************************************************************)
\* The position of the first handler whose validate returns invalid, 0
\* when every handler passes.
FirstInvalid(rs) ==
  IF \E i \in 1..Len(rs) : ~rs[i].isValid
  THEN CHOOSE i \in 1..Len(rs) :
         ~rs[i].isValid /\ \A j \in 1..(i - 1) : rs[j].isValid
  ELSE 0

Range(f) == {f[i] : i \in DOMAIN f}

\* C9: when handler k is the first to return invalid, validate of no later
\* handler is ever invoked, and the returned result holds no error, no
\* warning and no metadata value of a later handler.
C9_NoHandlerRunsAfterFirstInvalid ==
  LET k == FirstInvalid(handlers) IN
  k # 0 =>
    /\ \A j \in Range(chain.invoked) : j <= k
    /\ chain.pc = "done" =>
         /\ \A e \in Range(chain.result.errors) : e[2] <= k
         /\ \A w \in Range(chain.result.warnings) : w[2] <= k
         /\ \A key \in DOMAIN chain.result.metadata :
              chain.result.metadata[key] <= k

\* C9 witness: the run is over, the first handler failed, and a later
\* handler would have emitted a warning and metadata.
C9_Witness ==
  /\ chain.pc = "done"
  /\ Len(handlers) >= 2
  /\ FirstInvalid(handlers) = 1
  /\ handlers[2].warnings # <<>>
  /\ handlers[2].metadata # NoMetadata

\* The position of the last handler that runs: the first invalid one, or
\* the last of the chain.
LastRun(rs) == IF FirstInvalid(rs) = 0 THEN Len(rs) ELSE FirstInvalid(rs)

RECURSIVE ConcatUpTo(_, _, _)
ConcatUpTo(rs, field, k) ==
  IF k = 0 THEN <<>> ELSE ConcatUpTo(rs, field, k - 1) \o rs[k][field]

\* The left-to-right merge of the validate results of handlers 1..k.
MergedUpTo(rs, k) ==
  [isValid |-> \A i \in 1..k : rs[i].isValid,
   errors |-> ConcatUpTo(rs, "errors", k),
   warnings |-> ConcatUpTo(rs, "warnings", k),
   metadata |->
     [key \in UNION {DOMAIN rs[i].metadata : i \in 1..k} |->
        LET last == CHOOSE i \in 1..k :
                      /\ key \in DOMAIN rs[i].metadata
                      /\ \A j \in (i + 1)..k : key \notin DOMAIN rs[j].metadata
        IN  rs[last].metadata[key]]]

\* C10: handle returns the left-to-right merge of the validate results of
\* exactly the handlers that ran: conjunction of isValid, errors and
\* warnings concatenated in handler order, metadata united with the later
\* handler winning a key collision.
C10_HandleIsMergeOfHandlersThatRan ==
  chain.pc = "done" =>
    /\ chain.invoked = [i \in 1..LastRun(handlers) |-> i]
    /\ chain.result = MergedUpTo(handlers, LastRun(handlers))

\* C10 witness: the second handler failed after the first passed with a
\* warning, and both wrote the shared metadata key.
C10_Witness ==
  /\ chain.pc = "done"
  /\ Len(handlers) >= 2
  /\ FirstInvalid(handlers) = 2
  /\ handlers[1].warnings # <<>>
  /\ SharedKey \in DOMAIN handlers[1].metadata
  /\ SharedKey \in DOMAIN handlers[2].metadata

\* C18: merging is associative, merge(merge(a, b), c) = merge(a, merge(b, c))
\* for all validate results a, b, c of the chain's handlers, valid or not,
\* taken in any order and with repetition (the handlers' results are fixed
\* over a run, so they are compared once, before the run starts); and the
\* result of a chain of three handlers that all pass is either grouping of
\* their results.
C18_MergeIsAssociative ==
  /\ chain.invoked = <<>> =>
       \A i, j, k \in 1..Len(handlers) :
         mergeResults(mergeResults(handlers[i], handlers[j]), handlers[k])
           = mergeResults(handlers[i], mergeResults(handlers[j], handlers[k]))
  /\ ( /\ chain.pc = "done"
       /\ Len(handlers) = 3
       /\ \A i \in 1..3 : handlers[i].isValid )
     => /\ chain.result
             = mergeResults(mergeResults(handlers[1], handlers[2]), handlers[3])
        /\ chain.result
             = mergeResults(handlers[1], mergeResults(handlers[2], handlers[3]))

\* C18 witness: a chain of three passing handlers has run, each with a
\* warning, the first and the last writing the shared metadata key.
C18_Witness ==
  /\ chain.pc = "done"
  /\ Len(handlers) = 3
  /\ \A i \in 1..3 : handlers[i].isValid /\ handlers[i].warnings # <<>>
  /\ SharedKey \in DOMAIN handlers[1].metadata
  /\ SharedKey \in DOMAIN handlers[3].metadata

(***************************************************************************)
(* Product entity (part_007) and product classification                    *)
(***************************************************************************)
ProductStatus == {"ACTIVE", "INACTIVE", "OUT_OF_STOCK"}

ProductType == {"PHYSICAL", "DIGITAL", "SERVICE"}

\* Mutant: every product counts as available.
isAvailable_always(p) == TRUE

isAvailable(p) == p.status = "ACTIVE" /\ p.stock > 0

updateStock(p, newStock) ==
  IF newStock < 0 THEN Throw(p, "Product stock cannot be negative")
  ELSE Return([p EXCEPT !.stock = newStock,
                        !.status = IF newStock = 0 /\ p.status = "ACTIVE"
                                   THEN "OUT_OF_STOCK"
                                   ELSE IF newStock > 0 /\ p.status = "OUT_OF_STOCK"
                                   THEN "ACTIVE"
                                   ELSE p.status])

\* Mutant: the stock is decremented in place, without the checks.
decreaseStock_unchecked(p, quantity) == Return([p EXCEPT !.stock = @ - quantity])

\* Mutant: one unit is taken whatever the quantity.
decreaseStock_byOne(p, quantity) ==
  IF quantity <= 0 THEN Throw(p, "Quantity must be greater than 0")
  ELSE IF quantity > p.stock THEN Throw(p, "Insufficient stock")
  ELSE updateStock(p, p.stock - 1)

\* Mutant: running out of stock is reported in the words of the
\* availability check made before payment.
decreaseStock_saysNotAvailable(p, quantity) ==
  IF quantity <= 0 THEN Throw(p, "Quantity must be greater than 0")
  ELSE IF quantity > p.stock THEN Throw(p, "Product not available")
  ELSE updateStock(p, p.stock - quantity)

decreaseStock(p, quantity) ==
  IF quantity <= 0 THEN Throw(p, "Quantity must be greater than 0")
  ELSE IF quantity > p.stock THEN Throw(p, "Insufficient stock")
  ELSE updateStock(p, p.stock - quantity)

increaseStock(p, quantity) ==
  IF quantity <= 0 THEN Throw(p, "Quantity must be greater than 0")
  ELSE updateStock(p, p.stock + quantity)

activate(p) ==
  Return([p EXCEPT !.status = IF p.stock > 0 THEN "ACTIVE" ELSE "OUT_OF_STOCK"])

deactivate(p) == Return([p EXCEPT !.status = "INACTIVE"])

\* String.prototype.toLowerCase on the words product names are made of.
toLowerCase(word) ==
  CASE word = "Camiseta" -> "camiseta"
    [] word = "Curso" -> "curso"
    [] word = "Consultoria" -> "consultoria"
    [] OTHER -> word

\* name.toLowerCase().includes(token), a name being a sequence of words.
includes(name, token) == \E i \in 1..Len(name) : toLowerCase(name[i]) = token

\* The product type validateAndPrepareItems infers from the name.
productTypeOf(name) ==
  IF includes(name, "curso") \/ includes(name, "ebook") \/ includes(name, "digital")
  THEN "DIGITAL"
  ELSE IF includes(name, "consultoria") \/ includes(name, "serviço") \/ includes(name, "aula")
  THEN "SERVICE"
  ELSE "PHYSICAL"

(***************************************************************************)
(* The four validation handlers (part_004)                                 *)
(*                                                                         *)
(* A context is [order, user, products, productTypes, customerData, hour]: *)
(* products the sequence of loaded Product entities, productTypes a        *)
(* function on product ids, customerData a record holding the fields the   *)
(* request gave (the empty record when it gave none), hour the hour of     *)
(* new Date() when BusinessRulesValidationHandler runs. A message is       *)
(* [msg, about]: its fixed text and the ids or names put into it.          *)
(***************************************************************************)
MinimumOrderValue == 10

HighValueCreditCard == 5000

HighValueBoleto == 1000

HighValueOutsideHours == 1000

MaxItemsPerOrder == 10

BusinessHoursStart == 9

BusinessHoursEnd == 18

ValidRegions == {"SP", "RJ", "MG", "RS", "PR", "SC"}

Message(msg, about) == [msg |-> msg, about |-> about]

Has(rec, field) == field \in DOMAIN rec

\* The messages f gives for each line of items, in line order.
RECURSIVE FlatMap(_, _)
FlatMap(f(_), its) ==
  IF its = <<>> THEN <<>> ELSE f(Head(its)) \o FlatMap(f, Tail(its))

\* context.products.find((p) => p.id === id): its index, 0 for undefined
findProduct(ps, id) ==
  IF \E i \in 1..Len(ps) : ps[i].id = id
  THEN CHOOSE i \in 1..Len(ps) : ps[i].id = id /\ \A j \in 1..(i - 1) : ps[j].id # id
  ELSE 0

\* Mutant: the type map is not read.
typeOrPhysical_mapIgnored(ctx, id) == "PHYSICAL"

\* context.productTypes?.get(id) || PHYSICAL
typeOrPhysical(ctx, id) ==
  IF id \in DOMAIN ctx.productTypes THEN ctx.productTypes[id] ELSE "PHYSICAL"

StockValidate(ctx) ==
  LET lineErrors(item) ==
        LET i == findProduct(ctx.products, item.productId) IN
        IF i = 0 THEN << Message("Produto não encontrado", <<item.productId>>) >>
        ELSE LET product == ctx.products[i]
                 type == typeOrPhysical(ctx, product.id)
             IN  IF product.stock < item.quantity
                 THEN << Message(CASE type = "PHYSICAL" -> "Estoque insuficiente"
                                   [] type = "DIGITAL" -> "Produto digital não disponível"
                                   [] type = "SERVICE" -> "Serviço não tem horários disponíveis suficientes",
                                 <<product.id>>) >>
                 ELSE <<>>
      lineWarnings(item) ==
        LET i == findProduct(ctx.products, item.productId) IN
        IF i = 0 THEN <<>>
        ELSE LET product == ctx.products[i] IN
             IF /\ typeOrPhysical(ctx, product.id) = "PHYSICAL"
                /\ product.stock >= item.quantity
                /\ product.stock < item.quantity * 2
             THEN << Message("Estoque baixo", <<product.id>>) >>
             ELSE <<>>
      found == {i \in 1..Len(ctx.order.items) :
                  findProduct(ctx.products, ctx.order.items[i].productId) # 0}
      \* stockInfo[product.id] is written once per line: the last line of a
      \* product wins.
      stockInfo ==
        [id \in {ctx.order.items[i].productId : i \in found} |->
           LET last == CHOOSE i \in found :
                         /\ ctx.order.items[i].productId = id
                         /\ \A j \in found : ctx.order.items[j].productId = id => j <= i
               product == ctx.products[findProduct(ctx.products, id)]
           IN  [available |-> product.stock,
                requested |-> ctx.order.items[last].quantity,
                type |-> typeOrPhysical(ctx, id)]]
      errors == FlatMap(lineErrors, ctx.order.items)
  IN  ValidationResult(Len(errors) = 0, errors,
                       FlatMap(lineWarnings, ctx.order.items),
                       [k \in {"stockValidation"} |-> stockInfo])

PaymentValidate(ctx) ==
  LET method == ctx.order.paymentMethod
      amount == total(ctx.order)
      errors ==
        (IF method \notin {"PIX", "CREDIT_CARD", "BOLETO"}
         THEN << Message("Método de pagamento inválido", <<method>>) >> ELSE <<>>)
        \o (IF amount < MinimumOrderValue
            THEN << Message("Valor mínimo do pedido", <<>>) >> ELSE <<>>)
      warnings ==
        (IF method = "CREDIT_CARD" /\ amount > HighValueCreditCard
         THEN << Message("Pedido de alto valor", <<>>) >> ELSE <<>>)
        \o (IF method = "BOLETO" /\ amount > HighValueBoleto
            THEN << Message("Boletos acima de R$ 1.000", <<>>) >> ELSE <<>>)
  IN  ValidationResult(Len(errors) = 0, errors, warnings,
                       [k \in {"paymentValidation"} |->
                          [method |-> method, amount |-> amount,
                           minimumOrderValue |-> MinimumOrderValue]])

CustomerValidate(ctx) ==
  LET cd == ctx.customerData
      errors ==
        (IF ~ctx.user.emailHasAt
         THEN << Message("Email do usuário inválido", <<>>) >> ELSE <<>>)
        \o (IF ctx.user.nameLength < 2
            THEN << Message("Nome do usuário deve ter pelo menos 2 caracteres", <<>>) >>
            ELSE <<>>)
        \o (IF /\ ctx.order.paymentMethod = "CREDIT_CARD"
               /\ Has(cd, "creditLimit")
               /\ cd.creditLimit # 0
               /\ total(ctx.order) > cd.creditLimit
            THEN << Message("Valor do pedido excede limite de crédito", <<>>) >>
            ELSE <<>>)
        \o (IF Has(cd, "deliveryRegion") /\ cd.deliveryRegion \notin ValidRegions
            THEN << Message("Região de entrega não atendida", <<cd.deliveryRegion>>) >>
            ELSE <<>>)
      isVip == Has(cd, "isVip") /\ cd.isVip
      warnings == IF isVip THEN << Message("Cliente VIP", <<>>) >> ELSE <<>>
  IN  ValidationResult(Len(errors) = 0, errors, warnings,
                       [k \in {"customerValidation"} |->
                          [userId |-> ctx.user.id, isVip |-> isVip]])

BusinessRulesValidate(ctx) ==
  LET its == ctx.order.items
      ids == {its[i].productId : i \in 1..Len(its)}
      types == {ctx.productTypes[id] : id \in ids \cap DOMAIN ctx.productTypes}
      hasPhysical == "PHYSICAL" \in types
      hasDigital == "DIGITAL" \in types
      hasService == "SERVICE" \in types
      isBusinessHours == ctx.hour >= BusinessHoursStart /\ ctx.hour <= BusinessHoursEnd
      errors ==
        (IF Len(its) > MaxItemsPerOrder
         THEN << Message("Máximo de 10 itens por pedido", <<>>) >> ELSE <<>>)
        \o (IF Len(its) # Cardinality(ids)
            THEN << Message("Não é permitido adicionar o mesmo produto múltiplas vezes", <<>>) >>
            ELSE <<>>)
      warnings ==
        (IF hasPhysical /\ hasDigital
         THEN << Message("Mistura de produtos físicos e digitais", <<>>) >> ELSE <<>>)
        \o (IF hasService /\ (hasPhysical \/ hasDigital)
            THEN << Message("Pedido contém serviços e produtos", <<>>) >> ELSE <<>>)
        \o (IF total(ctx.order) > HighValueOutsideHours /\ ~isBusinessHours
            THEN << Message("Pedido de alto valor fora do horário comercial", <<>>) >>
            ELSE <<>>)
  IN  ValidationResult(Len(errors) = 0, errors, warnings,
                       [k \in {"businessRulesValidation"} |->
                          [itemCount |-> Len(its), productTypesInOrder |-> types,
                           isBusinessHours |-> isBusinessHours]])

\* OrderValidationChainBuilder.createCompleteChain().handle(context)
completeChain(ctx) ==
  handle(<<StockValidate(ctx), PaymentValidate(ctx), CustomerValidate(ctx),
           BusinessRulesValidate(ctx)>>, 1)

(***************************************************************************)
(* Payment strategies (PaymentStrategy.ts)                                 *)
(*                                                                         *)
(* paymentData is a record of the fields the caller gave. A field holds    *)
(* what the strategy looks at: cardNumber the number of digits left after  *)
(* the whitespace is stripped, cvv its number of digits, expiryDate        *)
(* whether MM/YY lies in the future, pixKey which alternative of the key   *)
(* pattern it matches, userDocument its number of digits. roll is the      *)
(* outcome of the Math.random() < p test of the simulated gateway.         *)
(***************************************************************************)
CreditCardValidate(d) ==
  /\ Has(d, "cardNumber") /\ Has(d, "expiryDate") /\ Has(d, "cvv") /\ Has(d, "cardholderName")
  /\ d.cardNumber = 16
  /\ d.cvv \in 3..4
  /\ d.expiryDate = "future"

\* Mutant: the gateway is asked before the data is validated.
CreditCardProcess_gatewayFirst(d, roll) ==
  IF roll
  THEN [success |-> FALSE, errorMessage |-> "Payment declined by bank", processingTime |-> 0]
  ELSE IF ~CreditCardValidate(d)
  THEN [success |-> FALSE, errorMessage |-> "Invalid credit card data"]
  ELSE [success |-> TRUE, transactionId |-> "cc_", processingTime |-> 0]

CreditCardProcess(d, roll) ==
  IF ~CreditCardValidate(d)
  THEN [success |-> FALSE, errorMessage |-> "Invalid credit card data"]
  ELSE IF roll
  THEN [success |-> FALSE, errorMessage |-> "Payment declined by bank", processingTime |-> 0]
  ELSE [success |-> TRUE, transactionId |-> "cc_", processingTime |-> 0]

PixValidate(d) ==
  /\ Has(d, "pixKey") /\ Has(d, "userDocument")
  /\ d.pixKey \in {"email", "digits11", "digits14", "uuid"}

PixProcess(d, roll) ==
  IF ~PixValidate(d)
  THEN [success |-> FALSE, errorMessage |-> "Invalid PIX data"]
  ELSE IF roll
  THEN [success |-> FALSE, errorMessage |-> "PIX key not found or inactive", processingTime |-> 0]
  ELSE [success |-> TRUE, transactionId |-> "pix_", processingTime |-> 0]

BoletoValidate(d) ==
  /\ Has(d, "userDocument") /\ Has(d, "userName") /\ Has(d, "userAddress")
  /\ d.userDocument \in {11, 14}

\* Mutant: the boleto goes through a gateway that may decline, like the
\* other two strategies.
BoletoProcess_mayDecline(d, roll) ==
  IF ~BoletoValidate(d)
  THEN [success |-> FALSE, errorMessage |-> "Invalid boleto data"]
  ELSE IF roll
  THEN [success |-> FALSE, errorMessage |-> "Boleto not issued", processingTime |-> 0]
  ELSE [success |-> TRUE, transactionId |-> "boleto_", processingTime |-> 0]

BoletoProcess(d, roll) ==
  IF ~BoletoValidate(d)
  THEN [success |-> FALSE, errorMessage |-> "Invalid boleto data"]
  ELSE [success |-> TRUE, transactionId |-> "boleto_", processingTime |-> 0]

\* The three strategy classes.
Strategies == {"CreditCardPaymentStrategy", "PixPaymentStrategy", "BoletoPaymentStrategy"}

getPaymentMethod(strategy) ==
  CASE strategy = "CreditCardPaymentStrategy" -> "CREDIT_CARD"
    [] strategy = "PixPaymentStrategy" -> "PIX"
    [] strategy = "BoletoPaymentStrategy" -> "BOLETO"

validatePaymentData(strategy, d) ==
  CASE strategy = "CreditCardPaymentStrategy" -> CreditCardValidate(d)
    [] strategy = "PixPaymentStrategy" -> PixValidate(d)
    [] strategy = "BoletoPaymentStrategy" -> BoletoValidate(d)

\* PaymentProcessor.processPayment: the strategy's processPayment
StrategyProcess(strategy, d, roll) ==
  CASE strategy = "CreditCardPaymentStrategy" -> CreditCardProcess(d, roll)
    [] strategy = "PixPaymentStrategy" -> PixProcess(d, roll)
    [] strategy = "BoletoPaymentStrategy" -> BoletoProcess(d, roll)

\* Mutant: a method that is not known gets the Pix strategy.
createStrategy_defaultsToPix(paymentMethod) ==
  CASE paymentMethod = "CREDIT_CARD" -> Return("CreditCardPaymentStrategy")
    [] paymentMethod = "BOLETO" -> Return("BoletoPaymentStrategy")
    [] OTHER -> Return("PixPaymentStrategy")

\* PaymentStrategyFactory.createStrategy: a new strategy object, or the
\* error thrown.
createStrategy(paymentMethod) ==
  CASE paymentMethod = "CREDIT_CARD" -> Return("CreditCardPaymentStrategy")
    [] paymentMethod = "PIX" -> Return("PixPaymentStrategy")
    [] paymentMethod = "BOLETO" -> Return("BoletoPaymentStrategy")
    [] OTHER -> Throw("none", "Unsupported payment method")

\* CreateOrderUseCase.processPayment: PaymentStrategyFactory.createStrategy,
\* then PaymentProcessor.processPayment; what createStrategy throws is
\* caught and returned as a failure.
processPayment(o, d, roll) ==
  LET made == createStrategy(o.paymentMethod) IN
  IF made.error # NoError
  THEN [success |-> FALSE, errorMessage |-> made.error]
  ELSE StrategyProcess(made.o, d, roll)

(***************************************************************************)
(* Repositories and request inputs of SpecCreate                           *)
(***************************************************************************)
\* The columns of the product table no request writes.
Catalog ==
  [p1 |-> [name |-> <<"Camiseta">>, price |-> 10],
   p2 |-> [name |-> <<"Curso", "Node">>, price |-> 4]]

CatalogOrder == <<"p1", "p2">>

DigitalStock == 999999

\* The user table: one registered customer (a User entity always has an
\* email with "@" and a name of two characters or more).
Users == {"u1"}

UserRow(id) == [id |-> id, emailHasAt |-> TRUE, nameLength |-> 3]

\* PrismaProductRepository.toDomainEntity of the row of product id
toDomainEntity(id) ==
  [id |-> id, name |-> Catalog[id].name, price |-> Catalog[id].price,
   stock |-> products[id].stock, status |-> products[id].status]

\* PrismaProductRepository.findByIds: the rows whose id is in ids, each once
findByIds(ids) ==
  LET hit == SelectSeq(CatalogOrder, LAMBDA id : id \in Range(ids) /\ id \in DOMAIN products)
  IN  [i \in 1..Len(hit) |-> toDomainEntity(hit[i])]

Line(p, q) == [productId |-> p, quantity |-> q]

Request(userId, its, method, data, customerData) ==
  [userId |-> userId, items |-> its, paymentMethod |-> method,
   paymentData |-> data, customerData |-> customerData]

PixData == [pixKey |-> "email", userDocument |-> 11]

CardData == [cardNumber |-> 16, expiryDate |-> "future", cvv |-> 3, cardholderName |-> "Ana"]

CardDataShortCvv == [cardNumber |-> 16, expiryDate |-> "future", cvv |-> 2, cardholderName |-> "Ana"]

BoletoData == [userDocument |-> 11, userName |-> "Ana", userAddress |-> "Rua 1"]

\* The requests sent: accepted ones, and one for each way of failing.
RequestSamples ==
  << Request("u1", <<Line("p1", 1)>>, "PIX", PixData, NoMetadata),
     Request("u1", <<Line("p1", 2)>>, "CREDIT_CARD", CardData, NoMetadata),
     Request("u1", <<Line("p2", 1), Line("p1", 1)>>, "BOLETO", BoletoData, [isVip |-> TRUE]),
     Request("u1", <<Line("p2", 1)>>, "PIX", PixData, NoMetadata),
     Request("u1", <<Line("p1", 1)>>, "CREDIT_CARD", CardDataShortCvv, NoMetadata),
     Request("u1", <<Line("p1", 1)>>, "CASH", PixData, NoMetadata),
     Request("u9", <<Line("p1", 1)>>, "PIX", PixData, NoMetadata),
     Request("u1", <<Line("p1", 0)>>, "PIX", PixData, NoMetadata),
     Request("u1", <<Line("p3", 1)>>, "PIX", PixData, NoMetadata),
     Request("u1", <<Line("p1", 1), Line("p1", 1)>>, "PIX", PixData, NoMetadata) >>

\* The hours new Date() may give: outside and inside business hours.
Hours == {8, 12}

(***************************************************************************)
(* CreateOrderUseCase (part_015)                                           *)
(***************************************************************************)
\* validateRequest: the message it throws, NoError when it returns.
validateRequest(request) ==
  IF request.userId = "" THEN "User ID is required"
  ELSE IF Len(request.items) = 0 THEN "Order must have at least one item"
  ELSE IF request.paymentMethod = "" THEN "Payment method is required"
  ELSE IF \E i \in 1..Len(request.items) :
            request.items[i].productId = "" \/ request.items[i].quantity <= 0
       THEN LET i == CHOOSE k \in 1..Len(request.items) :
                       /\ request.items[k].productId = "" \/ request.items[k].quantity <= 0
                       /\ \A j \in 1..(k - 1) :
                            request.items[j].productId # "" /\ request.items[j].quantity > 0
            IN  IF request.items[i].productId = ""
                THEN "Product ID is required for all items"
                ELSE "Item quantity must be greater than 0"
  ELSE NoError

\* validateAndPrepareItems, on the rows findByIds reads now.
validateAndPrepareItems(its) ==
  LET productIds == [i \in 1..Len(its) |-> its[i].productId]
      found == findByIds(productIds)
      foundIds == {found[i].id : i \in 1..Len(found)}
      productOf(i) == found[findProduct(found, its[i].productId)]
      stops == {i \in 1..Len(its) :
                  \/ findProduct(found, its[i].productId) = 0
                  \/ ~isAvailable(productOf(i))}
  IN  IF Len(found) # Len(productIds)
      THEN [success |-> FALSE,
            error |-> Message("Products not found",
                              SelectSeq(productIds, LAMBDA id : id \notin foundIds))]
      ELSE IF stops # {}
      THEN LET i == CHOOSE k \in stops : \A j \in stops : k <= j IN
           IF findProduct(found, its[i].productId) = 0
           THEN [success |-> FALSE, error |-> Message("Product not found", <<its[i].productId>>)]
           ELSE [success |-> FALSE, error |-> Message("Product not available", productOf(i).name)]
      ELSE [success |-> TRUE,
            items |-> [i \in 1..Len(its) |->
                         OrderItem(productOf(i).id, its[i].quantity, productOf(i).price)],
            products |-> found,
            productTypes |-> [id \in foundIds |-> productTypeOf(Catalog[id].name)]]

Undefined == <<>>

NewRequest(input) ==
  [input |-> input, pc |-> "start", user |-> Undefined, loaded |-> Undefined,
   productTypes |-> Undefined, order |-> Undefined,
   validated |-> FALSE, validationResult |-> Undefined,
   paid |-> FALSE, paymentResult |-> Undefined,
   idx |-> 0, entity |-> Undefined, decremented |-> <<>>, response |-> Undefined,
   calls |-> <<>>]

\* The row orderRepository.create writes for the order of request r.
OrderRow(r, o) ==
  [id |-> r, status |-> o.status, paymentStatus |-> o.paymentStatus,
   items |-> o.items, total |-> total(o)]

\* The physical product is scarce; the digital one has the stock
\* DigitalProductFactory gives every digital product.
InitCreate ==
  /\ \E n \in 0..MaxStock :
       products =
         [p1 |-> [stock |-> n, status |-> IF n = 0 THEN "OUT_OF_STOCK" ELSE "ACTIVE"],
          p2 |-> [stock |-> DigitalStock, status |-> "ACTIVE"]]
  /\ products0 = products
  /\ orders = {}
  /\ \E pick \in [1..NumReq -> 1..Len(RequestSamples)] :
       /\ \A r \in 1..(NumReq - 1) : pick[r] <= pick[r + 1]
       /\ req = [r \in 1..NumReq |-> NewRequest(RequestSamples[pick[r]])]
  /\ IdleOrder
  /\ IdleChain
  /\ IdleOthers

\* execute returns a failure: return { success: false, error }, also from
\* the catch block.
Fail(r, error) ==
  req' = [req EXCEPT ![r].pc = "done",
                     ![r].response = [success |-> FALSE, error |-> <<error>>]]

\* The same, after the repository method named has been called.
FailAfter(r, method, error) ==
  req' = [req EXCEPT ![r].pc = "done",
                     ![r].response = [success |-> FALSE, error |-> <<error>>],
                     ![r].calls = Append(@, method)]

\* Mutant: the user is looked up before the request is validated.
FindUser_looksUpFirst(r) ==
  /\ req[r].pc = "start"
  /\ LET request == req[r].input
         thrown == validateRequest(request)
     IN  IF request.userId \notin Users
         THEN FailAfter(r, "userRepository.findById", Message("User not found", <<>>))
         ELSE IF thrown # NoError
         THEN FailAfter(r, "userRepository.findById", Message(thrown, <<>>))
         ELSE req' = [req EXCEPT ![r].user = UserRow(request.userId),
                                 ![r].calls = Append(@, "userRepository.findById"),
                                 ![r].pc = "findProducts"]
  /\ UNCHANGED <<order, lastCall, handlers, chain, products, products0, orders, others>>

\* Steps 1-2: validateRequest, then userRepository.findById.
FindUser(r) ==
  /\ req[r].pc = "start"
  /\ LET request == req[r].input
         thrown == validateRequest(request)
     IN  IF thrown # NoError THEN Fail(r, Message(thrown, <<>>))
         ELSE IF request.userId \notin Users
         THEN FailAfter(r, "userRepository.findById", Message("User not found", <<>>))
         ELSE req' = [req EXCEPT ![r].user = UserRow(request.userId),
                                 ![r].calls = Append(@, "userRepository.findById"),
                                 ![r].pc = "findProducts"]
  /\ UNCHANGED <<order, lastCall, handlers, chain, products, products0, orders, others>>

\* Steps 3-4: validateAndPrepareItems (productRepository.findByIds), then
\* new Order(...).
FindProducts(r) ==
  /\ req[r].pc = "findProducts"
  /\ LET request == req[r].input
         prepared == validateAndPrepareItems(request.items)
     IN  IF ~prepared.success
         THEN FailAfter(r, "productRepository.findByIds", prepared.error)
         ELSE IF validateOrder(prepared.items) # NoError
         THEN FailAfter(r, "productRepository.findByIds",
                        Message(validateOrder(prepared.items), <<>>))
         ELSE req' = [req EXCEPT ![r].calls = Append(@, "productRepository.findByIds"),
                                 ![r].loaded = prepared.products,
                                 ![r].productTypes = prepared.productTypes,
                                 ![r].order = NewOrder(prepared.items, request.paymentMethod),
                                 ![r].pc = "validate"]
  /\ UNCHANGED <<order, lastCall, handlers, chain, products, products0, orders, others>>

\* Mutant: the chain's verdict is not looked at.
Validate_ignoresVerdict(r) ==
  /\ req[r].pc = "validate"
  /\ \E hour \in Hours :
       LET ctx == [order |-> req[r].order, user |-> req[r].user,
                   products |-> req[r].loaded, productTypes |-> req[r].productTypes,
                   customerData |-> req[r].input.customerData, hour |-> hour]
       IN  req' = [req EXCEPT ![r].validated = TRUE,
                              ![r].validationResult = completeChain(ctx),
                              ![r].pc = "pay"]
  /\ UNCHANGED <<order, lastCall, handlers, chain, products, products0, orders, others>>

\* Step 5: validateOrderWithChain; an invalid result is returned at once.
Validate(r) ==
  /\ req[r].pc = "validate"
  /\ \E hour \in Hours :
       LET ctx == [order |-> req[r].order, user |-> req[r].user,
                   products |-> req[r].loaded, productTypes |-> req[r].productTypes,
                   customerData |-> req[r].input.customerData, hour |-> hour]
           validationResult == completeChain(ctx)
       IN  IF ~validationResult.isValid
           THEN req' = [req EXCEPT ![r].validated = TRUE,
                                   ![r].validationResult = validationResult,
                                   ![r].pc = "done",
                                   ![r].response =
                                     [success |-> FALSE,
                                      error |-> validationResult.errors,
                                      validationResult |-> validationResult]]
           ELSE req' = [req EXCEPT ![r].validated = TRUE,
                                   ![r].validationResult = validationResult,
                                   ![r].pc = "pay"]
  /\ UNCHANGED <<order, lastCall, handlers, chain, products, products0, orders, others>>

\* Mutant: the payment is marked completed before its result is looked at,
\* and a failed payment does not stop the request.
Pay_goesOnAfterFailure(r) ==
  /\ req[r].pc = "pay"
  /\ \E roll \in BOOLEAN :
       req' = [req EXCEPT ![r].paid = TRUE,
                          ![r].paymentResult =
                            processPayment(req[r].order, req[r].input.paymentData, roll),
                          ![r].order = completePayment(req[r].order).o,
                          ![r].pc = "persist"]
  /\ UNCHANGED <<order, lastCall, handlers, chain, products, products0, orders, others>>

\* Steps 6-7: processPayment, then order.completePayment().
Pay(r) ==
  /\ req[r].pc = "pay"
  /\ \E roll \in BOOLEAN :
       LET paymentResult == processPayment(req[r].order, req[r].input.paymentData, roll)
           completed == completePayment(req[r].order)
       IN  IF ~paymentResult.success
           THEN req' = [req EXCEPT ![r].paid = TRUE,
                                   ![r].paymentResult = paymentResult,
                                   ![r].pc = "done",
                                   ![r].response =
                                     [success |-> FALSE,
                                      error |-> << Message(IF Has(paymentResult, "errorMessage")
                                                           THEN paymentResult.errorMessage
                                                           ELSE "Payment failed", <<>>) >>]]
           ELSE IF completed.error # NoError
           THEN req' = [req EXCEPT ![r].paid = TRUE,
                                   ![r].paymentResult = paymentResult,
                                   ![r].pc = "done",
                                   ![r].response =
                                     [success |-> FALSE,
                                      error |-> << Message(completed.error, <<>>) >>]]
           ELSE req' = [req EXCEPT ![r].paid = TRUE,
                                   ![r].paymentResult = paymentResult,
                                   ![r].order = completed.o,
                                   ![r].pc = "persist"]
  /\ UNCHANGED <<order, lastCall, handlers, chain, products, products0, orders, others>>

\* Step 8: orderRepository.create(order).
Persist(r) ==
  /\ req[r].pc = "persist"
  /\ orders' = orders \cup {OrderRow(r, req[r].order)}
  /\ req' = [req EXCEPT ![r].pc = "stockFind", ![r].idx = 1,
                         ![r].calls = Append(@, "orderRepository.create")]
  /\ UNCHANGED <<order, lastCall, handlers, chain, products, products0, others>>

\* updateProductStock goes on to the next line, or returns and execute
\* returns the success response.
NextLine(r, rq) ==
  IF rq.idx = Len(rq.order.items)
  THEN [rq EXCEPT !.pc = "done",
                  !.response = [success |-> TRUE,
                                order |-> OrderRow(r, rq.order),
                                paymentResult |->
                                  [transactionId |-> rq.paymentResult.transactionId,
                                   processingTime |-> rq.paymentResult.processingTime],
                                validationResult |-> rq.validationResult]]
  ELSE [rq EXCEPT !.pc = "stockFind", !.idx = @ + 1]

\* Step 9, updateProductStock, first half for a line:
\* productRepository.findById, then product.decreaseStock on the entity.
StockFind(r) ==
  /\ req[r].pc = "stockFind"
  /\ LET item == req[r].order.items[req[r].idx] IN
       IF item.productId \notin DOMAIN products
       THEN req' = [req EXCEPT ![r] =
                      NextLine(r, [req[r] EXCEPT
                                     !.calls = Append(@, "productRepository.findById")])]
       ELSE LET decreased == decreaseStock(toDomainEntity(item.productId), item.quantity) IN
            IF decreased.error # NoError
            THEN FailAfter(r, "productRepository.findById", Message(decreased.error, <<>>))
            ELSE req' = [req EXCEPT ![r].entity = decreased.o, ![r].pc = "stockUpdate",
                                    ![r].calls = Append(@, "productRepository.findById")]
  /\ UNCHANGED <<order, lastCall, handlers, chain, products, products0, orders, others>>

\* Step 9, second half for a line: productRepository.update writes the
\* entity's stock and status over the row.
StockUpdate(r) ==
  /\ req[r].pc = "stockUpdate"
  /\ LET entity == req[r].entity IN
       /\ products' = [products EXCEPT ![entity.id] =
                         [stock |-> entity.stock, status |-> entity.status]]
       /\ req' = [req EXCEPT ![r] =
                    NextLine(r, [req[r] EXCEPT
                                   !.decremented = Append(@, entity.id),
                                   !.calls = Append(@, "productRepository.update")])]
  /\ UNCHANGED <<order, lastCall, handlers, chain, products0, orders, others>>

NextCreate ==
  \E r \in 1..NumReq :
    \/ FindUser(r)
    \/ FindProducts(r)
    \/ Validate(r)
    \/ Pay(r)
    \/ Persist(r)
    \/ StockFind(r)
    \/ StockUpdate(r)

SpecCreate == InitCreate /\ [][NextCreate]_vars

(***************************************************************************)
(* SpecFault: createOrder with repositories that may fail.  Any awaited    *)
(* repository call may reject with a storage error; every await of execute *)
(* is inside its try block, so the catch block turns the rejection into    *)
(* the value execute returns.                                              *)
(***************************************************************************)
\* The requests sent under SpecFault: two accepted ones, one with invalid
\* card data and one for a product that does not exist.
FaultSamples == << RequestSamples[1], RequestSamples[2], RequestSamples[5], RequestSamples[9] >>

InitFault ==
  /\ products = [p1 |-> [stock |-> MaxStock, status |-> "ACTIVE"],
                 p2 |-> [stock |-> DigitalStock, status |-> "ACTIVE"]]
  /\ products0 = products
  /\ orders = {}
  /\ \E pick \in [1..NumReq -> 1..Len(FaultSamples)] :
       /\ \A r \in 1..(NumReq - 1) : pick[r] <= pick[r + 1]
       /\ req = [r \in 1..NumReq |-> NewRequest(FaultSamples[pick[r]])]
  /\ IdleOrder
  /\ IdleChain
  /\ IdleOthers

\* The repository method request r is about to await, "none" if its next
\* step awaits no repository.
AwaitedMethod(r) ==
  CASE req[r].pc = "start" /\ validateRequest(req[r].input) = NoError -> "userRepository.findById"
    [] req[r].pc = "findProducts" -> "productRepository.findByIds"
    [] req[r].pc = "persist" -> "orderRepository.create"
    [] req[r].pc = "stockFind" -> "productRepository.findById"
    [] req[r].pc = "stockUpdate" -> "productRepository.update"
    [] OTHER -> "none"

\* The awaited repository call rejects; the catch block of execute returns
\* { success: false, error: error.message }.
RepositoryFault(r) ==
  /\ AwaitedMethod(r) # "none"
  /\ FailAfter(r, AwaitedMethod(r), Message("Storage unavailable", <<>>))
  /\ UNCHANGED <<order, lastCall, handlers, chain, products, products0, orders, others>>

NextFault ==
  \/ NextCreate
  \/ \E r \in 1..NumReq : RepositoryFault(r)

SpecFault == InitFault /\ [][NextFault]_vars

(***************************************************************************)
(* SpecUnits: single calls of the payment strategies, of the strategy      *)
(* factory and of the stock and customer handlers, on arguments drawn from *)
(* bounded sets; lastCall records the call and what it returned.  A        *)
(* behaviour makes any number of factory calls and then one call of a      *)
(* strategy or of a handler.                                               *)
(***************************************************************************)
\* Credit card data: any field may be missing; the number has 15 or 16
\* digits, the cvv 2 or 3, the expiry date lies in the past or the future.
CardDataSet ==
  { [k \in ks |-> CASE k = "cardNumber" -> n
                    [] k = "cvv" -> c
                    [] k = "expiryDate" -> e
                    [] k = "cardholderName" -> "Ana"] :
      ks \in SUBSET {"cardNumber", "cvv", "expiryDate", "cardholderName"},
      n \in {15, 16}, c \in {2, 3}, e \in {"past", "future"} }

PixDataSet ==
  { [k \in ks |-> CASE k = "pixKey" -> key [] k = "userDocument" -> 11] :
      ks \in SUBSET {"pixKey", "userDocument"},
      key \in {"email", "digits11", "uuid", "other"} }

BoletoDataSet ==
  { [k \in ks |-> CASE k = "userDocument" -> n
                    [] k = "userName" -> "Ana"
                    [] k = "userAddress" -> "Rua 1"] :
      ks \in SUBSET {"userDocument", "userName", "userAddress"},
      n \in {10, 11, 14} }

\* The data a strategy is called with: of its own kind, or of another
\* kind (whose fields it does not find).
PaymentDataSet == CardDataSet \cup PixDataSet \cup BoletoDataSet

\* The methods createStrategy is called with: the three of the enum and
\* one that is not.
MethodArgs == PaymentMethod \cup {"CASH"}

\* Contexts for the customer handler: an order of one line of price 10,
\* a credit limit absent, zero, below, at and above the totals.
CustomerContexts ==
  { [order |-> NewOrder(<<OrderItem("p1", q, 10)>>, m),
     user |-> UserRow("u1"),
     customerData |-> cd] :
      q \in 1..MaxQty, m \in PaymentMethod,
      cd \in { [k \in ks |-> CASE k = "creditLimit" -> limit
                               [] k = "deliveryRegion" -> region
                               [] k = "isVip" -> TRUE] :
                 ks \in SUBSET {"creditLimit", "deliveryRegion", "isVip"},
                 limit \in {0, 5, 10, 25}, region \in {"SP", "AM"} } }

\* Contexts for the stock handler: one or two lines on products p1 and
\* p2, each loaded or not, with any stock up to twice the largest
\* quantity; p1 of any type or of none, p2 of any type.
StockContexts ==
  LET Lines == {<<OrderItem(a, q, 10)>> : a \in ProductIds, q \in 1..MaxQty}
               \cup {<<OrderItem("p1", q1, 10), OrderItem("p2", q2, 10)>> :
                       q1 \in 1..MaxQty, q2 \in 1..MaxQty}
      Loaded(id, n) == [id |-> id, name |-> Catalog[id].name, price |-> 10,
                        stock |-> n, status |-> "ACTIVE"]
      Stocks == 0..(2 * MaxQty)
      ProductLists ==
        {<<>>}
        \cup {<<Loaded(id, n)>> : id \in ProductIds, n \in Stocks}
        \cup {<<Loaded("p1", n1), Loaded("p2", n2)>> : n1 \in Stocks, n2 \in Stocks}
      TypeMaps ==
        {[id \in {"p2"} |-> t2] : t2 \in ProductType}
        \cup {[id \in ProductIds |-> IF id = "p1" THEN t1 ELSE t2] :
                t1 \in ProductType, t2 \in ProductType}
  IN  { [order |-> NewOrder(its, "PIX"), products |-> ps, productTypes |-> types] :
          its \in Lines, ps \in ProductLists, types \in TypeMaps }

InitUnits ==
  /\ order = <<>>
  /\ lastCall = [op |-> "none", error |-> NoError]
  /\ IdleChain
  /\ IdleCreate
  /\ IdleOthers

CreateStrategyCall ==
  /\ \E m \in MethodArgs :
       lastCall' = [op |-> "createStrategy", paymentMethod |-> m, made |-> createStrategy(m)]
  /\ UNCHANGED <<order, handlers, chain, products, products0, orders, req, others>>

ProcessPaymentCall ==
  /\ lastCall.op \in {"none", "createStrategy"}
  /\ \E strategy \in Strategies, d \in PaymentDataSet, roll \in BOOLEAN :
       lastCall' = [op |-> "processPayment", strategy |-> strategy, paymentData |-> d,
                    roll |-> roll, result |-> StrategyProcess(strategy, d, roll)]
  /\ UNCHANGED <<order, handlers, chain, products, products0, orders, req, others>>

CustomerValidateCall ==
  /\ lastCall.op \in {"none", "createStrategy"}
  /\ \E ctx \in CustomerContexts :
       lastCall' = [op |-> "CustomerValidationHandler.validate", context |-> ctx,
                    result |-> CustomerValidate(ctx)]
  /\ UNCHANGED <<order, handlers, chain, products, products0, orders, req, others>>

StockValidateCall ==
  /\ lastCall.op \in {"none", "createStrategy"}
  /\ \E ctx \in StockContexts :
       lastCall' = [op |-> "StockValidationHandler.validate", context |-> ctx,
                    result |-> StockValidate(ctx)]
  /\ UNCHANGED <<order, handlers, chain, products, products0, orders, req, others>>

NextUnits ==
  \/ CreateStrategyCall
  \/ ProcessPaymentCall
  \/ CustomerValidateCall
  \/ StockValidateCall

SpecUnits == InitUnits /\ [][NextUnits]_vars

(***************************************************************************)
(* Claims on the payment strategies, the factory and the stock and         *)
(* customer handlers, checked under SpecUnits                              *)
(***************************************************************************)
\* The message a strategy gives for payment data it finds invalid.
InvalidDataMessage(strategy) ==
  CASE strategy = "CreditCardPaymentStrategy" -> "Invalid credit card data"
    [] strategy = "PixPaymentStrategy" -> "Invalid PIX data"
    [] strategy = "BoletoPaymentStrategy" -> "Invalid boleto data"

\* C23: processPayment of each strategy checks the payment data first: on
\* invalid data it returns success false with the strategy's invalid-data
\* message, no transaction id and no trace of a simulated transaction (no
\* processing time, the same result whatever the gateway would answer);
\* every result has a transaction id exactly when it is a success and an
\* error message exactly when it is not.
C23_InvalidDataStopsBeforeTransaction ==
  lastCall.op = "processPayment" =>
    LET result == lastCall.result
        strategy == lastCall.strategy
        d == lastCall.paymentData
    IN  /\ Has(result, "transactionId") <=> result.success
        /\ Has(result, "errorMessage") <=> ~result.success
        /\ ~validatePaymentData(strategy, d) =>
             /\ result = [success |-> FALSE, errorMessage |-> InvalidDataMessage(strategy)]
             /\ StrategyProcess(strategy, d, ~lastCall.roll) = result

\* C23 witness: card data with a two-digit cvv was refused although the
\* gateway would have declined.
C23_Witness ==
  /\ lastCall.op = "processPayment"
  /\ lastCall.strategy = "CreditCardPaymentStrategy"
  /\ lastCall.paymentData = CardDataShortCvv
  /\ lastCall.roll
  /\ ~lastCall.result.success
  /\ ~Has(lastCall.result, "transactionId")

\* C24: createStrategy returns, for each of CreditCard, Pix and Boleto, a
\* strategy whose getPaymentMethod is the method asked for, and throws the
\* unsupported-method error for any other value, whatever was created
\* before.
C24_FactoryGivesStrategyOfMethod ==
  lastCall.op = "createStrategy" =>
    LET made == lastCall.made
        m == lastCall.paymentMethod
    IN  /\ m \in {"CREDIT_CARD", "PIX", "BOLETO"} =>
             /\ made.error = NoError
             /\ made.o \in Strategies
             /\ getPaymentMethod(made.o) = m
        /\ m \notin {"CREDIT_CARD", "PIX", "BOLETO"} =>
             made.error = "Unsupported payment method"

\* C24 witness: a method outside the enum was asked for and refused.
C24_Witness ==
  /\ lastCall.op = "createStrategy"
  /\ lastCall.paymentMethod = "CASH"
  /\ lastCall.made.error # NoError

\* C28: with valid data the boleto strategy always succeeds with a
\* transaction id; the credit card and Pix strategies either succeed or
\* are declined by the gateway, both outcomes being possible, and the
\* decline message is not the invalid-data message.
C28_OnlyCardAndPixMayDecline ==
  (lastCall.op = "processPayment"
     /\ validatePaymentData(lastCall.strategy, lastCall.paymentData)) =>
    LET result == lastCall.result
        strategy == lastCall.strategy
        other == StrategyProcess(strategy, lastCall.paymentData, ~lastCall.roll)
    IN  IF strategy = "BoletoPaymentStrategy"
        THEN result.success /\ Has(result, "transactionId")
        ELSE /\ result.success # other.success
             /\ ~result.success =>
                  /\ result.errorMessage # InvalidDataMessage(strategy)
                  /\ Has(result, "processingTime")

\* C28 witness: a boleto with valid data was issued on the draw on which
\* a card would have been declined.
C28_Witness ==
  /\ lastCall.op = "processPayment"
  /\ lastCall.strategy = "BoletoPaymentStrategy"
  /\ lastCall.paymentData = BoletoData
  /\ lastCall.roll
  /\ lastCall.result.success

\* C25: the customer handler reports the credit-limit error and an invalid
\* result when the method is CreditCard, a credit limit is given (zero
\* included) and the order total is above it, and reports no credit-limit
\* error when the limit is absent or the method is another one.
C25_CreditLimitIsEnforced ==
  lastCall.op = "CustomerValidationHandler.validate" =>
    LET ctx == lastCall.context
        result == lastCall.result
        overLimit == Message("Valor do pedido excede limite de crédito", <<>>)
                       \in Range(result.errors)
        given == "creditLimit" \in DOMAIN ctx.customerData
    IN  /\ ( /\ ctx.order.paymentMethod = "CREDIT_CARD"
             /\ given
             /\ LineSum(ctx.order.items, Len(ctx.order.items)) > ctx.customerData.creditLimit )
           => (overLimit /\ ~result.isValid)
        /\ (~given \/ ctx.order.paymentMethod # "CREDIT_CARD") => ~overLimit

Done(r) == req[r].pc = "done"

Succeeded(r) == Done(r) /\ req[r].response.success

Failed(r) == Done(r) /\ ~req[r].response.success

\* The order of request r is in the order table.
Persisted(r) == \E o \in orders : o.id = r

PaymentSucceeded(r) == req[r].paid /\ req[r].paymentResult.success

PaymentFailed(r) == req[r].paid /\ ~req[r].paymentResult.success

ChainRejected(r) == req[r].validated /\ ~req[r].validationResult.isValid

\* C4: with the physical product at stock 1 and two concurrent requests
\* for one unit each, both passing validation and payment, exactly one
\* request returns success.
C4_ExactlyOneOfTwoSucceeds ==
  ( /\ products0["p1"].stock = 1
    /\ \A r \in 1..2 :
         /\ req[r].input = RequestSamples[1]
         /\ Done(r)
         /\ PaymentSucceeded(r) )
  => Cardinality({r \in 1..2 : Succeeded(r)}) = 1

\* C5: no stock value is negative, in the product table or in a Product
\* entity a request holds.
C5_StockNeverNegative ==
  /\ \A id \in DOMAIN products : products[id].stock >= 0
  /\ \A r \in 1..NumReq :
       /\ \A i \in 1..Len(req[r].loaded) : req[r].loaded[i].stock >= 0
       /\ (req[r].pc = "stockUpdate" \/ Len(req[r].decremented) > 0)
            => req[r].entity.stock >= 0

\* C5 witness: a request found the stock used up by a concurrent one when
\* it came to decrement it.
C5_Witness ==
  \E r \in 1..NumReq :
    /\ Failed(r)
    /\ req[r].response.error = << Message("Insufficient stock", <<>>) >>
    /\ \E q \in 1..NumReq : q # r /\ Len(req[q].decremented) > 0

\* C6: a request that returns a failure has left no order of its own in
\* the order table.
C6_FailureLeavesNoOrder ==
  \A r \in 1..NumReq : Failed(r) => ~Persisted(r)

\* C7: when the validation chain returns invalid, the request ends at once
\* with a failure carrying the validation result; no payment is attempted,
\* no order is persisted and the request changes no stock.
C7_InvalidChainStopsRequest ==
  \A r \in 1..NumReq :
    ChainRejected(r) =>
      /\ Failed(r)
      /\ Has(req[r].response, "validationResult")
      /\ req[r].response.validationResult = req[r].validationResult
      /\ req[r].response.error = req[r].validationResult.errors
      /\ ~req[r].paid
      /\ ~Persisted(r)
      /\ req[r].decremented = <<>>

\* C7 witness: an order whose total is below the minimum was rejected by
\* the payment handler.
C7_Witness ==
  \E r \in 1..NumReq :
    /\ ChainRejected(r)
    /\ Message("Valor mínimo do pedido", <<>>) \in Range(req[r].validationResult.errors)

\* C8: when the payment fails, the request ends with a failure carrying
\* the reason; the order is not persisted, its payment status is not
\* Completed and the request changes no stock.
C8_FailedPaymentStopsRequest ==
  \A r \in 1..NumReq :
    PaymentFailed(r) =>
      /\ Failed(r)
      /\ req[r].response.error = << Message(req[r].paymentResult.errorMessage, <<>>) >>
      /\ req[r].order.paymentStatus # "COMPLETED"
      /\ ~Persisted(r)
      /\ req[r].decremented = <<>>

\* C8 witness: one request was declined by the gateway and another one
\* sent invalid card data.
C8_Witness ==
  \E r, q \in 1..NumReq :
    /\ PaymentFailed(r)
    /\ req[r].paymentResult.errorMessage = "Payment declined by bank"
    /\ PaymentFailed(q)
    /\ req[q].paymentResult.errorMessage = "Invalid credit card data"

\* The ValidationContext validateOrderWithChain builds for request r, read
\* at the given hour.
ContextOf(r, hour) ==
  [order |-> req[r].order, user |-> req[r].user,
   products |-> req[r].loaded, productTypes |-> req[r].productTypes,
   customerData |-> req[r].input.customerData, hour |-> hour]

\* C19: running the complete chain again on the unchanged context of a
\* validated request, whenever the second run takes place, gives the
\* result of the first run.
C19_RevalidationGivesSameResult ==
  \A r \in 1..NumReq :
    (req[r].validated /\ ~req[r].paid) =>
      \A hour \in Hours : completeChain(ContextOf(r, hour)) = req[r].validationResult

\* No request but r has taken a step.
Alone(r) == \A q \in 1..NumReq : q # r => req[q].pc = "start"

\* The quantity the lines its ask of product id.
RECURSIVE QuantityOf(_, _)
QuantityOf(its, id) ==
  IF its = <<>> THEN 0
  ELSE (IF Head(its).productId = id THEN Head(its).quantity ELSE 0)
       + QuantityOf(Tail(its), id)

\* C20: a request running alone whose payment succeeded returns success,
\* with exactly one order persisted, of status Pending and payment status
\* Completed, and with the stock of every product reduced by exactly the
\* quantity the request's lines ask of it.
C20_LoneRequestSucceeds ==
  \A r \in 1..NumReq :
    (Done(r) /\ Alone(r) /\ PaymentSucceeded(r)) =>
      /\ req[r].response.success
      /\ orders = {OrderRow(r, req[r].order)}
      /\ \A o \in orders : o.status = "PENDING" /\ o.paymentStatus = "COMPLETED"
      /\ \A id \in DOMAIN products :
           products[id].stock
             = products0[id].stock - QuantityOf(req[r].input.items, id)

\* C20 witness: a request for two units of the physical product has run
\* alone to its end and taken the whole stock.
C20_Witness ==
  \E r \in 1..NumReq :
    /\ Succeeded(r)
    /\ Alone(r)
    /\ req[r].input = RequestSamples[2]
    /\ products0["p1"].stock = 2
    /\ products["p1"].stock = 0

\* The productIds of the lines of request r.
RequestedIds(r) ==
  [i \in 1..Len(req[r].input.items) |-> req[r].input.items[i].productId]

\* C21: once the products of a request have been looked up, the request
\* has ended with the 'Products not found' failure exactly when at least
\* one requested productId is not in the product table (requests repeating
\* a productId included); the failure names exactly the ids that are not
\* there, and no order of the request is persisted.
C21_ProductsNotFoundIffAbsent ==
  \A r \in 1..NumReq :
    "productRepository.findByIds" \in Range(req[r].calls) =>
      LET absent == SelectSeq(RequestedIds(r), LAMBDA id : id \notin DOMAIN products)
          notFound == /\ Failed(r)
                      /\ req[r].response.error[1].msg = "Products not found"
      IN  /\ notFound <=> absent # <<>>
          /\ notFound => /\ req[r].response.error[1].about = absent
                         /\ ~Persisted(r)

\* Requests of each bad shape: no userId, no items, no paymentMethod, a
\* line without productId, a line of quantity zero or less.
BadShapes ==
  { Request("", <<Line("p1", 1)>>, "PIX", PixData, NoMetadata),
    Request("u1", <<>>, "PIX", PixData, NoMetadata),
    Request("u1", <<Line("p1", 1)>>, "", PixData, NoMetadata),
    Request("u1", <<Line("", 1)>>, "PIX", PixData, NoMetadata),
    Request("u1", <<Line("p1", 1), Line("p2", 0)>>, "PIX", PixData, NoMetadata),
    Request("u1", <<Line("p1", 0 - 1)>>, "PIX", PixData, NoMetadata) }

\* C22: a request that fails shape validation is answered with a failure
\* carrying the shape error, and no method of the user, product or order
\* repository has been called for it: nothing is persisted and no stock is
\* changed by it.  Each of the bad shapes fails shape validation.
C22_ShapeFailureCallsNoRepository ==
  /\ \A request \in BadShapes : validateRequest(request) # NoError
  /\ \A r \in 1..NumReq :
       (validateRequest(req[r].input) # NoError /\ req[r].pc # "start") =>
         /\ Failed(r)
         /\ req[r].response.error = << Message(validateRequest(req[r].input), <<>>) >>
         /\ req[r].calls = <<>>
         /\ ~Persisted(r)
         /\ req[r].decremented = <<>>

\* C22 witness: a request with a line of quantity zero was refused for
\* its shape before any repository was asked.
C22_Witness ==
  \E r \in 1..NumReq :
    /\ Failed(r)
    /\ \E i \in 1..Len(req[r].input.items) : req[r].input.items[i].quantity <= 0
    /\ req[r].response.error[1].msg = "Item quantity must be greater than 0"
    /\ req[r].calls = <<>>

\* C27: when the products of a request are looked up and a line references
\* a product that is not available (status not ACTIVE, or stock 0), the
\* request ends there with a failure: the validation chain has not run, no
\* payment was attempted, no order was persisted and no stock changed.
C27_UnavailableProductStopsRequest ==
  [][ \A r \in 1..NumReq :
        ( /\ req[r].pc = "findProducts"
          /\ req'[r].pc # "findProducts"
          /\ \E i \in 1..Len(req[r].input.items) :
               LET id == req[r].input.items[i].productId IN
               /\ id \in DOMAIN products
               /\ (products[id].status # "ACTIVE" \/ products[id].stock = 0) )
        => /\ req'[r].pc = "done"
           /\ ~req'[r].response.success
           /\ ~req'[r].validated
           /\ ~req'[r].paid
           /\ req'[r].decremented = <<>>
           /\ orders' = orders
           /\ products' = products ]_vars

\* C27 witness: a request was refused because its product was not
\* available, after another request had taken the last of the stock.
C27_Witness ==
  \E r, q \in 1..NumReq :
    /\ Failed(r)
    /\ req[r].response.error[1].msg = "Product not available"
    /\ ~req[r].validated
    /\ Succeeded(q)
    /\ products["p1"].stock = 0

C30_RepositoryFaultIsNotAResult ==
  \A r \in 1..NumReq :
    Done(r) =>
      /\ Has(req[r].response, "success")
      /\ ~req[r].response.success =>
           \A i \in 1..Len(req[r].response.error) :
             req[r].response.error[i].msg # "Storage unavailable"

(***************************************************************************)
(* SpecUpdate: concurrent UpdateOrderStatusUseCase.execute runs on the     *)
(* order table.  An execution is two steps, one per await: findById with   *)
(* the checks and the transition on the entity it loaded, then update.     *)
(***************************************************************************)
\* The row of order o1 of user u1 in any stage of its life, paid or not
\* while it has not shipped.
StoredOrders ==
  { [id |-> "o1", userId |-> "u1", status |-> st, paymentStatus |-> ps,
     items |-> <<OrderItem("p1", 1, 10)>>, paymentMethod |-> "PIX"] :
      st \in {"PENDING", "CONFIRMED", "PROCESSING"}, ps \in {"PENDING", "COMPLETED"} }
  \cup
  { [id |-> "o1", userId |-> "u1", status |-> sp[1], paymentStatus |-> sp[2],
     items |-> <<OrderItem("p1", 1, 10)>>, paymentMethod |-> "PIX"] :
      sp \in { <<"SHIPPED", "COMPLETED">>, <<"DELIVERED", "COMPLETED">>,
               <<"CANCELLED", "CANCELLED">> } }

\* UpdateOrderStatusRequest; userId "" stands for no userId.
UpdateRequest(orderId, status, userId) ==
  [orderId |-> orderId, status |-> status, userId |-> userId]

\* The requests sent: each status for order o1, by an admin and by its
\* owner, one by another user and one for an order that does not exist.
UpdateSamples ==
  << UpdateRequest("o1", "PENDING", ""),
     UpdateRequest("o1", "CONFIRMED", ""),
     UpdateRequest("o1", "PROCESSING", ""),
     UpdateRequest("o1", "SHIPPED", ""),
     UpdateRequest("o1", "DELIVERED", ""),
     UpdateRequest("o1", "CANCELLED", ""),
     UpdateRequest("o1", "CONFIRMED", "u1"),
     UpdateRequest("o1", "CANCELLED", "u1"),
     UpdateRequest("o1", "CONFIRMED", "u2"),
     UpdateRequest("o9", "CONFIRMED", "") >>

InitUpdate ==
  /\ \E row \in StoredOrders : orders = {row}
  /\ \E pick \in [1..NumUpd -> 1..Len(UpdateSamples)] :
       /\ \A r \in 1..(NumUpd - 1) : pick[r] <= pick[r + 1]
       /\ req = [r \in 1..NumUpd |->
                   [input |-> UpdateSamples[pick[r]], pc |-> "start", order |-> Undefined,
                    response |-> Undefined, calls |-> <<>>]]
  /\ products = <<>>
  /\ products0 = <<>>
  /\ IdleOrder
  /\ IdleChain
  /\ IdleOthers

\* PrismaOrderRepository.toDomainEntity of a row: new Order(...)
orderOfRow(row) ==
  [status |-> row.status, paymentStatus |-> row.paymentStatus, items |-> row.items,
   paymentMethod |-> row.paymentMethod]

\* The switch of execute: the method of the requested status called on the
\* entity; the default branch returns the failure without a call.
applyStatus(o, status) ==
  CASE status = "CONFIRMED" -> confirm(o)
    [] status = "PROCESSING" -> startProcessing(o)
    [] status = "SHIPPED" -> ship(o)
    [] status = "DELIVERED" -> deliver(o)
    [] status = "CANCELLED" -> cancel(o)
    [] OTHER -> Throw(o, "Invalid status transition")

\* execute returns { success: false, error } after findById.
UpdateFail(r, error) ==
  req' = [req EXCEPT ![r].pc = "done",
                     ![r].calls = Append(@, "orderRepository.findById"),
                     ![r].response = [success |-> FALSE, error |-> error]]

\* Mutant: the owner of the order is not compared with the userId given.
UpdateFind_anyUser(r) ==
  /\ req[r].pc = "start"
  /\ LET request == req[r].input
         found == {row \in orders : row.id = request.orderId}
     IN  IF found = {} THEN UpdateFail(r, "Order not found")
         ELSE LET row == CHOOSE x \in found : TRUE
                  applied == applyStatus(orderOfRow(row), request.status)
              IN  IF applied.error # NoError THEN UpdateFail(r, applied.error)
                  ELSE req' = [req EXCEPT ![r].pc = "update",
                                          ![r].calls = Append(@, "orderRepository.findById"),
                                          ![r].order = applied.o]
  /\ UNCHANGED <<order, lastCall, handlers, chain, products, products0, orders, others>>

\* orderRepository.findById, the permission check and the transition on
\* the entity.
UpdateFind(r) ==
  /\ req[r].pc = "start"
  /\ LET request == req[r].input
         found == {row \in orders : row.id = request.orderId}
     IN  IF found = {} THEN UpdateFail(r, "Order not found")
         ELSE LET row == CHOOSE x \in found : TRUE
                  applied == applyStatus(orderOfRow(row), request.status)
              IN  IF request.userId # "" /\ row.userId # request.userId
                  THEN UpdateFail(r, "Access denied")
                  ELSE IF applied.error # NoError THEN UpdateFail(r, applied.error)
                  ELSE req' = [req EXCEPT ![r].pc = "update",
                                          ![r].calls = Append(@, "orderRepository.findById"),
                                          ![r].order = applied.o]
  /\ UNCHANGED <<order, lastCall, handlers, chain, products, products0, orders, others>>

\* orderRepository.update: status and paymentStatus of the entity are
\* written over the row of its id; execute returns the updated order.
UpdateSave(r) ==
  /\ req[r].pc = "update"
  /\ LET id == req[r].input.orderId
         written(row) == [row EXCEPT !.status = req[r].order.status,
                                     !.paymentStatus = req[r].order.paymentStatus]
     IN  /\ orders' = {IF row.id = id THEN written(row) ELSE row : row \in orders}
         /\ req' = [req EXCEPT ![r].pc = "done",
                               ![r].calls = Append(@, "orderRepository.update"),
                               ![r].response =
                                 [success |-> TRUE,
                                  order |-> written(CHOOSE row \in orders : row.id = id)]]
  /\ UNCHANGED <<order, lastCall, handlers, chain, products, products0, others>>

NextUpdate ==
  \E r \in 1..NumUpd :
    \/ UpdateFind(r)
    \/ UpdateSave(r)

SpecUpdate == InitUpdate /\ [][NextUpdate]_vars

(***************************************************************************)
(* Claims on UpdateOrderStatusUseCase, checked under SpecUpdate            *)
(***************************************************************************)
\* The stored status and payment status allow the requested status.
Allowed(row, status) ==
  \/ status = "CONFIRMED" /\ row.status = "PENDING"
  \/ status = "PROCESSING" /\ row.status = "CONFIRMED"
  \/ status = "SHIPPED" /\ row.status = "PROCESSING" /\ row.paymentStatus = "COMPLETED"
  \/ status = "DELIVERED" /\ row.status = "SHIPPED"
  \/ status = "CANCELLED" /\ row.status \in {"PENDING", "CONFIRMED"}

\* The request is one execute refuses, given the order table it reads.
Refused(request) ==
  \/ \A row \in orders : row.id # request.orderId
  \/ \E row \in orders :
       /\ row.id = request.orderId
       /\ \/ request.userId # "" /\ request.userId # row.userId
          \/ request.status = "PENDING"
          \/ ~Allowed(row, request.status)

\* C31: an execution whose order does not exist, whose userId is not the
\* order's, whose requested status is PENDING or whose transition is not
\* allowed for the stored status and payment status ends on reading the
\* order with success false, without calling orderRepository.update and
\* leaving the order table as it is; any other execution goes on to
\* update, and the update makes the stored status the requested one and
\* returns success.
C31_RefusedUpdateWritesNothing ==
  [][ \A r \in 1..NumUpd :
        /\ (req[r].pc = "start" /\ req'[r].pc # "start") =>
             /\ orders' = orders
             /\ IF Refused(req[r].input)
                THEN /\ req'[r].pc = "done"
                     /\ ~req'[r].response.success
                     /\ "orderRepository.update" \notin Range(req'[r].calls)
                ELSE req'[r].pc = "update"
        /\ (req[r].pc = "update" /\ req'[r].pc # "update") =>
             /\ req'[r].pc = "done"
             /\ req'[r].response.success
             /\ \A row \in orders' :
                  row.id = req[r].input.orderId => row.status = req[r].input.status ]_vars

\* C31 witness: an execution was refused shipping an unpaid order, and
\* another one was denied access, with the order still as stored.
C31_Witness ==
  \E r, q \in 1..NumUpd :
    /\ req[r].pc = "done"
    /\ req[r].input.status = "SHIPPED"
    /\ req[r].response = [success |-> FALSE,
                          error |-> "Order cannot be shipped. Check status and payment."]
    /\ req[q].pc = "done"
    /\ req[q].response = [success |-> FALSE, error |-> "Access denied"]
    /\ \E row \in orders : row.status = "PROCESSING" /\ row.paymentStatus = "PENDING"

\* The status changes an order may go through.
LegalStatusChanges ==
  { <<"PENDING", "CONFIRMED">>, <<"CONFIRMED", "PROCESSING">>,
    <<"PROCESSING", "SHIPPED">>, <<"SHIPPED", "DELIVERED">>,
    <<"PENDING", "CANCELLED">>, <<"CONFIRMED", "CANCELLED">> }

\* C33: whatever the interleaving of the executions, each change of the
\* stored status of an order is a legal status change; a stored status of
\* DELIVERED or CANCELLED never changes.
C33_StoredStatusFollowsTable ==
  [][ \A row \in orders : \A next \in orders' :
        (row.id = next.id /\ row.status # next.status) =>
          <<row.status, next.status>> \in LegalStatusChanges ]_vars

(***************************************************************************)
(* Claims on the stock left by concurrent createOrder runs, checked under  *)
(* SpecCreate                                                              *)
(***************************************************************************)
\* The quantity of product id on the lines of the persisted orders of
\* requests 1..n.
RECURSIVE PersistedQuantity(_, _)
PersistedQuantity(n, id) ==
  IF n = 0 THEN 0
  ELSE PersistedQuantity(n - 1, id)
       + (IF Persisted(n) THEN QuantityOf(req[n].order.items, id) ELSE 0)

\* C32: once every createOrder execution has completed, the stock of each
\* product has gone down by exactly the quantity of it on the lines of the
\* persisted orders.
C32_StockMatchesPersistedOrders ==
  (\A r \in 1..NumReq : Done(r)) =>
    \A id \in DOMAIN products :
      products0[id].stock - products[id].stock = PersistedQuantity(NumReq, id)

\* C34: no completed createOrder execution has decremented the stock of
\* some lines of its order and not that of the others.
C34_StockDecrementIsAllOrNothing ==
  \A r \in 1..NumReq :
    (Done(r) /\ req[r].decremented # <<>>) =>
      Len(req[r].decremented) = Len(req[r].order.items)

(***************************************************************************)
(* SpecProduct: one Product entity under arbitrary calls of its stock and  *)
(* status methods; lastCall records the call, its argument and what it     *)
(* threw.  The stock is kept within 0..StockCap.                           *)
(***************************************************************************)
\* The largest stock.
StockCap == 2 * MaxStock

\* The arguments of the stock methods: negative, zero and positive.
StockArgs == (0 - 1)..StockCap

\* new Product(...) with the default status, as ProductFactory makes it
\* with stock 0: the constructor refuses a negative stock only.
InitProduct ==
  /\ \E n \in 0..StockCap : stocked = [id |-> "p1", stock |-> n, status |-> "ACTIVE"]
  /\ order = <<>>
  /\ lastCall = [op |-> "new", arg |-> 0, error |-> NoError]
  /\ IdleChain
  /\ IdleCreate
  /\ IdleAlias
  /\ IdleCache
  /\ IdleObservers

\* A method is called on the entity: it changes the entity or throws.
ProductCall(op, arg, res) ==
  /\ res.o.stock <= StockCap
  /\ stocked' = res.o
  /\ lastCall' = [op |-> op, arg |-> arg, error |-> res.error]
  /\ UNCHANGED <<order, handlers, chain, products, products0, orders, req,
                 heap, held, users, cache, observers, updates, inventory>>

UpdateStock == \E n \in StockArgs : ProductCall("updateStock", n, updateStock(stocked, n))

DecreaseStock == \E q \in StockArgs : ProductCall("decreaseStock", q, decreaseStock(stocked, q))

IncreaseStock == \E q \in StockArgs : ProductCall("increaseStock", q, increaseStock(stocked, q))

Activate == ProductCall("activate", 0, activate(stocked))

Deactivate == ProductCall("deactivate", 0, deactivate(stocked))

NextProduct ==
  \/ UpdateStock
  \/ DecreaseStock
  \/ IncreaseStock
  \/ Activate
  \/ Deactivate

SpecProduct == InitProduct /\ [][NextProduct]_vars

(***************************************************************************)
(* Claim on the Product entity, checked under SpecProduct                  *)
(***************************************************************************)
\* C36: after a call of updateStock, decreaseStock or increaseStock the
\* stock is not negative; if the product was not INACTIVE before the call,
\* it is OUT_OF_STOCK afterwards exactly when its stock is 0; an INACTIVE
\* product stays INACTIVE.  The call is rejected exactly for a negative
\* stock, a quantity that is not positive or a quantity above the stock,
\* and a rejected call leaves stock and status as they were.
C36_StockCallsKeepStatusInStep ==
  [][ lastCall'.op \in {"updateStock", "decreaseStock", "increaseStock"} =>
        LET arg == lastCall'.arg
            rejected ==
              \/ lastCall'.op = "updateStock" /\ arg < 0
              \/ lastCall'.op = "decreaseStock" /\ (arg <= 0 \/ arg > stocked.stock)
              \/ lastCall'.op = "increaseStock" /\ arg <= 0
        IN  /\ rejected <=> lastCall'.error # NoError
            /\ rejected => stocked' = stocked
            /\ stocked'.stock >= 0
            /\ stocked.status # "INACTIVE" =>
                 (stocked'.status = "OUT_OF_STOCK" <=> stocked'.stock = 0)
            /\ stocked.status = "INACTIVE" => stocked'.status = "INACTIVE" ]_vars

(***************************************************************************)
(* SpecAlias: an Order entity and the arrays and line objects it shares    *)
(* with its caller.  heap.lines holds the line objects and heap.arrays the *)
(* arrays of references to them, both addressed by index; order.items is   *)
(* the reference kept in _items.  The caller holds the array it passed to  *)
(* the constructor and every array the items getter returned.              *)
(***************************************************************************)
\* The order with its lines read through the references.
Deref(o) ==
  [o EXCEPT !.items = [i \in 1..Len(heap.arrays[o.items]) |->
                         heap.lines[heap.arrays[o.items][i]]]]

\* new Order(id, userId, items, ...): the parameter property keeps the
\* array it is given.
InitAlias ==
  /\ \E its \in { <<OrderItem("p1", 1, 3)>>,
                  <<OrderItem("p1", 1, 3), OrderItem("p2", 1, 3)>> } :
       heap = [lines |-> its, arrays |-> << [i \in 1..Len(its) |-> i] >>]
  /\ order = [status |-> "PENDING", paymentStatus |-> "PENDING", items |-> 1,
              paymentMethod |-> "PIX"]
  /\ held = {1}
  /\ lastCall = [op |-> "new", error |-> NoError]
  /\ IdleChain
  /\ IdleCreate
  /\ IdleProduct
  /\ IdleCache
  /\ IdleObservers

\* get items(): [...this._items], a new array of the same line objects.
GetItems ==
  /\ Len(heap.arrays) < MaxArrays
  /\ heap' = [heap EXCEPT !.arrays = Append(@, heap.arrays[order.items])]
  /\ held' = held \cup {Len(heap.arrays) + 1}
  /\ lastCall' = [op |-> "items", error |-> NoError]
  /\ UNCHANGED <<order, handlers, chain, products, products0, orders, req,
                 stocked, users, cache, observers, updates, inventory>>

\* The caller pushes a new line object onto an array it holds.
CallerPush ==
  /\ Len(heap.lines) < MaxLines
  /\ \E a \in held, p \in ProductIds :
       heap' = [heap EXCEPT !.lines = Append(@, OrderItem(p, 1, 3)),
                            !.arrays[a] = Append(@, Len(heap.lines) + 1)]
  /\ lastCall' = [op |-> "push", error |-> NoError]
  /\ UNCHANGED <<order, handlers, chain, products, products0, orders, req, held,
                 stocked, users, cache, observers, updates, inventory>>

\* The caller pops the last element off an array it holds.
CallerPop ==
  /\ \E a \in held :
       /\ heap.arrays[a] # <<>>
       /\ heap' = [heap EXCEPT !.arrays[a] = SubSeq(@, 1, Len(@) - 1)]
  /\ lastCall' = [op |-> "pop", error |-> NoError]
  /\ UNCHANGED <<order, handlers, chain, products, products0, orders, req, held,
                 stocked, users, cache, observers, updates, inventory>>

\* The caller assigns the quantity of a line object of an array it holds.
CallerSetQuantity ==
  /\ \E a \in held, q \in 0..MaxQty :
       \E i \in 1..Len(heap.arrays[a]) :
         heap' = [heap EXCEPT !.lines[heap.arrays[a][i]].quantity = q]
  /\ lastCall' = [op |-> "quantity=", error |-> NoError]
  /\ UNCHANGED <<order, handlers, chain, products, products0, orders, req, held,
                 stocked, users, cache, observers, updates, inventory>>

\* A line method has run on the entity: what it did to the lines is done
\* to the array _items refers to and to the line objects in it.  A line
\* pushed is the object addItem was given (the caller keeps no reference
\* to it here), a line spliced out leaves the array at the index
\* findIndex gave, a quantity assigned is assigned in the object.
AliasCall(op, productId, res) ==
  LET cur == heap.arrays[order.items]
      new == res.o.items
  IN  /\ \A i \in 1..Len(new) : new[i].quantity <= MaxQty
      /\ Len(new) > Len(cur) => Len(heap.lines) < MaxLines
      /\ heap' =
           IF Len(new) > Len(cur)
           THEN [heap EXCEPT !.lines = Append(@, new[Len(new)]),
                             !.arrays[order.items] = Append(@, Len(heap.lines) + 1)]
           ELSE IF Len(new) < Len(cur)
           THEN [heap EXCEPT !.arrays[order.items] =
                               splice(@, findIndex(Deref(order).items, productId))]
           ELSE [heap EXCEPT !.lines =
                               [l \in DOMAIN heap.lines |->
                                  IF \E i \in 1..Len(cur) : cur[i] = l
                                  THEN new[CHOOSE i \in 1..Len(cur) : cur[i] = l]
                                  ELSE heap.lines[l]]]
      /\ lastCall' = [op |-> op, error |-> res.error]
      /\ UNCHANGED <<order, handlers, chain, products, products0, orders, req, held,
                     stocked, users, cache, observers, updates, inventory>>

AliasAddItem ==
  \E p \in ProductIds :
    AliasCall("addItem", p, addItem(Deref(order), OrderItem(p, 1, 3)))

AliasRemoveItem ==
  \E p \in ProductIds : AliasCall("removeItem", p, removeItem(Deref(order), p))

AliasUpdateItemQuantity ==
  \E p \in ProductIds, q \in 0..MaxQty :
    AliasCall("updateItemQuantity", p, updateItemQuantity(Deref(order), p, q))

NextAlias ==
  \/ GetItems
  \/ CallerPush
  \/ CallerPop
  \/ CallerSetQuantity
  \/ AliasAddItem
  \/ AliasRemoveItem
  \/ AliasUpdateItemQuantity

SpecAlias == InitAlias /\ [][NextAlias]_vars

(***************************************************************************)
(* Claim on the references to an order's lines, checked under SpecAlias    *)
(***************************************************************************)
\* The lines of the order, read through _items.
LinesOfOrder == Deref(order).items

\* C35: reading the items getter, and changing an array or a line object
\* obtained from it or the array that was passed to the constructor, leave
\* the lines of the order and its total as they were: the lines change
\* only in addItem, removeItem and updateItemQuantity.
C35_LinesChangeOnlyThroughMethods ==
  [][ lastCall'.op \in {"items", "push", "pop", "quantity="} =>
        /\ LinesOfOrder' = LinesOfOrder
        /\ SumItems(LinesOfOrder') = SumItems(LinesOfOrder) ]_vars

(***************************************************************************)
(* SpecCache: CachedUserRepository (src/unnamed/part_001) in front of the  *)
(* repository it wraps.  users is the table of the wrapped repository,     *)
(* cache the Map of cached values by key (an entry that has expired is an  *)
(* entry that is gone: getFromCache deletes it).  Calls run one at a time. *)
(* A lookup returns <<>> for null and <<user>> for a user; findAll returns *)
(* the users as a set.                                                     *)
(***************************************************************************)
CachedIds == {"u1", "u2"}

Emails == {"a@x", "b@x"}

Names == {"n1", "n2"}

CachedUsers == [id : CachedIds, email : Emails, name : Names]

\* The tables the wrapped repository can hold: id and email are unique.
UserTables ==
  { t \in SUBSET CachedUsers :
      \A u1 \in t, u2 \in t : (u1.id = u2.id \/ u1.email = u2.email) => u1 = u2 }

allUsersKey == "all_users"

idKey(id) == "user_" \o id

emailKey(email) == "user_email_" \o email

\* The wrapped repository's findById and findByEmail.
repositoryFindById(id) ==
  IF \E u \in users : u.id = id THEN << CHOOSE u \in users : u.id = id >> ELSE <<>>

repositoryFindByEmail(email) ==
  IF \E u \in users : u.email = email
  THEN << CHOOSE u \in users : u.email = email >>
  ELSE <<>>

getFromCache(key) == IF key \in DOMAIN cache THEN << cache[key] >> ELSE <<>>

setCache(c, key, value) ==
  [k \in DOMAIN c \cup {key} |-> IF k = key THEN value ELSE c[k]]

invalidateCache(c, key) == [k \in DOMAIN c \ {key} |-> c[k]]

InitCache ==
  /\ users \in UserTables
  /\ cache = <<>>
  /\ order = <<>>
  /\ lastCall = [op |-> "new", error |-> NoError]
  /\ IdleChain
  /\ IdleCreate
  /\ IdleProduct
  /\ IdleAlias
  /\ IdleObservers

\* A call of the cached repository has returned (or thrown).
CacheCall(call, newUsers, newCache) ==
  /\ lastCall' = call
  /\ users' = newUsers
  /\ cache' = newCache
  /\ UNCHANGED <<order, handlers, chain, products, products0, orders, req,
                 stocked, heap, held, observers, updates, inventory>>

CachedFindAll ==
  LET cached == getFromCache(allUsersKey)
  IN  IF cached # <<>>
      THEN CacheCall([op |-> "findAll", result |-> cached[1], error |-> NoError],
                     users, cache)
      ELSE CacheCall([op |-> "findAll", result |-> users, error |-> NoError],
                     users, setCache(cache, allUsersKey, users))

\* findById and findByEmail: the cached value when there is one, else the
\* wrapped repository's answer, cached when it is a user.
CachedLookup(op, arg, key, found) ==
  LET cached == getFromCache(key)
  IN  IF cached # <<>>
      THEN CacheCall([op |-> op, arg |-> arg, result |-> cached, error |-> NoError],
                     users, cache)
      ELSE CacheCall([op |-> op, arg |-> arg, result |-> found, error |-> NoError],
                     users,
                     IF found # <<>> THEN setCache(cache, key, found[1]) ELSE cache)

CachedFindById ==
  \E id \in CachedIds : CachedLookup("findById", id, idKey(id), repositoryFindById(id))

CachedFindByEmail ==
  \E email \in Emails :
    CachedLookup("findByEmail", email, emailKey(email), repositoryFindByEmail(email))

\* create: the wrapped repository throws on a taken id or email, and then
\* nothing below the await runs.
CachedCreate ==
  \E user \in CachedUsers :
    IF \E u \in users : u.id = user.id \/ u.email = user.email
    THEN CacheCall([op |-> "create", arg |-> user, error |-> "Unique constraint failed"],
                   users, cache)
    ELSE CacheCall([op |-> "create", arg |-> user, error |-> NoError],
                   users \cup {user},
                   setCache(setCache(invalidateCache(cache, allUsersKey),
                                     idKey(user.id), user),
                            emailKey(user.email), user))

\* update: the wrapped repository throws when no row has the id or another
\* row has the email.
CachedUpdate ==
  \E user \in CachedUsers :
    IF \/ ~ \E u \in users : u.id = user.id
       \/ \E u \in users : u.id # user.id /\ u.email = user.email
    THEN CacheCall([op |-> "update", arg |-> user, error |-> "Update failed"],
                   users, cache)
    ELSE CacheCall([op |-> "update", arg |-> user, error |-> NoError],
                   {u \in users : u.id # user.id} \cup {user},
                   invalidateCache(invalidateCache(invalidateCache(cache, allUsersKey),
                                                   idKey(user.id)),
                                   emailKey(user.email)))

CachedDelete ==
  \E id \in CachedIds :
    IF ~ \E u \in users : u.id = id
    THEN CacheCall([op |-> "delete", arg |-> id, error |-> "Delete failed"],
                   users, cache)
    ELSE CacheCall([op |-> "delete", arg |-> id, error |-> NoError],
                   {u \in users : u.id # id},
                   invalidateCache(invalidateCache(cache, allUsersKey), idKey(id)))

\* CACHE_TTL has passed for an entry: the next getFromCache deletes it.
CacheExpires ==
  \E key \in DOMAIN cache :
    CacheCall([op |-> "expire", arg |-> key, error |-> NoError],
              users, invalidateCache(cache, key))

NextCache ==
  \/ CachedFindAll
  \/ CachedFindById
  \/ CachedFindByEmail
  \/ CachedCreate
  \/ CachedUpdate
  \/ CachedDelete
  \/ CacheExpires

SpecCache == InitCache /\ [][NextCache]_vars

(***************************************************************************)
(* Claim on the cached repository, checked under SpecCache                 *)
(***************************************************************************)
\* C37: a lookup through the cached repository is never stale: whatever
\* update(user) and delete(id) calls came before it, findById, findByEmail
\* (by the current or by a previous email of a user) and findAll return
\* what the wrapped repository holds when they are called.
C37_LookupsAreNeverStale ==
  [][ /\ lastCall'.op = "findById" =>
           lastCall'.result = repositoryFindById(lastCall'.arg)
      /\ lastCall'.op = "findByEmail" =>
           lastCall'.result = repositoryFindByEmail(lastCall'.arg)
      /\ lastCall'.op = "findAll" => lastCall'.result = users ]_vars

(***************************************************************************)
(* SpecObservers: OrderStatusManager and its observers                     *)
(* (src/unnamed/part_003).  observers is the manager's array, updates the  *)
(* calls of update made in the last step (which observer, whether it       *)
(* threw; none outside a notification), inventory the quantities the       *)
(* inventory service was asked to reserve, release and consume for the     *)
(* order.  The email and audit observers are known by what their update    *)
(* can do to the manager: return or throw.  The manager's logger returns.  *)
(***************************************************************************)
ObserverIds == {"email", "audit", "inventory"}

\* InventoryObserver.update: the calls it makes on the inventory service.
InventoryObserverUpdate(o, previousStatus, newStatus) ==
  LET callsFor(name) == [i \in 1..Len(o.items) |->
                           [call |-> name, productId |-> o.items[i].productId,
                            quantity |-> o.items[i].quantity]]
  IN  (IF newStatus = "CONFIRMED" /\ previousStatus = "PENDING"
       THEN callsFor("reserveStock") ELSE <<>>)
      \o (IF newStatus = "CANCELLED" THEN callsFor("releaseStock") ELSE <<>>)
      \o (IF newStatus = "DELIVERED" THEN callsFor("confirmStockConsumption") ELSE <<>>)

\* The quantities asked of the inventory service, after these calls.
RECURSIVE Served(_, _)
Served(inv, calls) ==
  IF calls = <<>> THEN inv
  ELSE LET c == Head(calls)
       IN  Served([reserved |-> inv.reserved
                                  + (IF c.call = "reserveStock" THEN c.quantity ELSE 0),
                   released |-> inv.released
                                  + (IF c.call = "releaseStock" THEN c.quantity ELSE 0),
                   consumed |-> inv.consumed
                                  + (IF c.call = "confirmStockConsumption"
                                     THEN c.quantity ELSE 0)],
                  Tail(calls))

\* Mutant: the loop ends at the first observer that throws.
RECURSIVE notifyObservers_stopsAtThrow(_, _)
notifyObservers_stopsAtThrow(obs, throwers) ==
  IF obs = <<>> THEN <<>>
  ELSE IF Head(obs) \in throwers
  THEN << [observer |-> Head(obs), threw |-> TRUE] >>
  ELSE << [observer |-> Head(obs), threw |-> FALSE] >>
         \o notifyObservers_stopsAtThrow(Tail(obs), throwers)

\* notifyObservers: the for-of loop over the array, each update inside its
\* own try/catch; throwers are the observers whose update throws this time.
RECURSIVE notifyObservers(_, _)
notifyObservers(obs, throwers) ==
  IF obs = <<>> THEN <<>>
  ELSE << [observer |-> Head(obs), threw |-> Head(obs) \in throwers] >>
         \o notifyObservers(Tail(obs), throwers)

\* indexOf, counted from 1: 0 when the observer is not in the array.
indexOf(obs, observer) ==
  IF \E i \in 1..Len(obs) : obs[i] = observer
  THEN CHOOSE i \in 1..Len(obs) :
         obs[i] = observer /\ \A j \in 1..(i - 1) : obs[j] # observer
  ELSE 0

\* new OrderStatusManager(logger), and a pending order of one line whose
\* payment has completed.
InitObservers ==
  /\ observers = <<>>
  /\ updates = <<>>
  /\ inventory = [reserved |-> 0, released |-> 0, consumed |-> 0]
  /\ order = completePayment(NewOrder(<<OrderItem("p1", 1, 10)>>, "PIX")).o
  /\ lastCall = [op |-> "new", error |-> NoError]
  /\ IdleChain
  /\ IdleCreate
  /\ IdleProduct
  /\ IdleAlias
  /\ IdleCache

AddObserver ==
  \E observer \in ObserverIds :
    /\ observers' = IF indexOf(observers, observer) = 0
                    THEN Append(observers, observer)
                    ELSE observers
    /\ lastCall' = [op |-> "addObserver", observer |-> observer, error |-> NoError]
    /\ updates' = <<>>
    /\ UNCHANGED <<order, handlers, chain, products, products0, orders, req,
                   stocked, heap, held, users, cache, inventory>>

RemoveObserver ==
  \E observer \in ObserverIds :
    /\ observers' = IF indexOf(observers, observer) > 0
                    THEN splice(observers, indexOf(observers, observer))
                    ELSE observers
    /\ lastCall' = [op |-> "removeObserver", observer |-> observer, error |-> NoError]
    /\ updates' = <<>>
    /\ UNCHANGED <<order, handlers, chain, products, products0, orders, req,
                   stocked, heap, held, users, cache, inventory>>

\* A run of notifyObservers(order, previousStatus, newStatus).  The update
\* of the inventory observer can throw only out of a call it makes.
Notify(op, previousStatus, newStatus) ==
  LET calls == InventoryObserverUpdate(order, previousStatus, newStatus)
  IN  \E throwers \in SUBSET Range(observers) :
        /\ "inventory" \in throwers => calls # <<>>
        /\ updates' = notifyObservers(observers, throwers)
        /\ inventory' = IF \E i \in 1..Len(updates') : updates'[i].observer = "inventory"
                        THEN Served(inventory, calls)
                        ELSE inventory
        /\ inventory'.reserved <= MaxInventory
        /\ inventory'.released <= MaxInventory
        /\ inventory'.consumed <= MaxInventory
        /\ lastCall' = [op |-> op, previousStatus |-> previousStatus,
                        newStatus |-> newStatus, error |-> NoError]
        /\ UNCHANGED <<order, handlers, chain, products, products0, orders, req,
                       stocked, heap, held, users, cache, observers>>

\* The status changes notifyObservers is called with: the legal ones, one
\* without a change and one that no order goes through.
NotifiedChanges ==
  LegalStatusChanges \cup { <<"PENDING", "PENDING">>, <<"CANCELLED", "CONFIRMED">> }

NotifyObservers ==
  \E change \in NotifiedChanges : Notify("notifyObservers", change[1], change[2])

\* changeOrderStatus(order, newStatus): returns at once when the order has
\* the status already; the order itself is not changed.
ChangeOrderStatus ==
  \E newStatus \in OrderStatus :
    IF order.status = newStatus
    THEN /\ updates' = <<>>
         /\ lastCall' = [op |-> "changeOrderStatus", previousStatus |-> order.status,
                         newStatus |-> newStatus, error |-> NoError]
         /\ UNCHANGED <<order, handlers, chain, products, products0, orders, req,
                        stocked, heap, held, users, cache, observers, inventory>>
    ELSE Notify("changeOrderStatus", order.status, newStatus)

\* The order entity goes through a state change of its own.
OrderMoves ==
  \E res \in { confirm(order), startProcessing(order), ship(order), deliver(order),
               cancel(order) } :
    /\ res.error = NoError
    /\ order' = res.o
    /\ lastCall' = [op |-> "order", error |-> NoError]
    /\ updates' = <<>>
    /\ UNCHANGED <<handlers, chain, products, products0, orders, req,
                   stocked, heap, held, users, cache, observers, inventory>>

NextObservers ==
  \/ AddObserver
  \/ RemoveObserver
  \/ NotifyObservers
  \/ ChangeOrderStatus
  \/ OrderMoves

SpecObservers == InitObservers /\ [][NextObservers]_vars

(***************************************************************************)
(* Claims on the observers, checked under SpecObservers                    *)
(***************************************************************************)
\* The observers updated by the last notification, in the order of the calls.
Updated(log) == [i \in 1..Len(log) |-> log[i].observer]

\* C38: notifyObservers calls update on every registered observer exactly
\* once, in registration order, also after an earlier update threw; the
\* array never holds an observer twice; changeOrderStatus with the status
\* the order already has calls no update.
C38_EveryObserverIsNotifiedOnce ==
  [][ /\ \A i \in 1..Len(observers'), j \in 1..Len(observers') :
           observers'[i] = observers'[j] => i = j
      /\ ( \/ lastCall'.op = "notifyObservers"
           \/ lastCall'.op = "changeOrderStatus" /\ lastCall'.newStatus # order.status )
           => Updated(updates') = observers
      /\ (lastCall'.op = "changeOrderStatus" /\ lastCall'.newStatus = order.status)
           => updates' = <<>> ]_vars

\* Reached: a notification of three observers in which the first update
\* threw and the two registered after it were still called.
C38_Witness ==
  /\ lastCall.op \in {"notifyObservers", "changeOrderStatus"}
  /\ Len(observers) = 3
  /\ Len(updates) = 3
  /\ updates[1].threw
  /\ ~updates[3].threw

\* C39: in a notification of a legal status change of the order, the
\* inventory observer asks for a release only of what it asked to reserve
\* before: the quantity released for the order never exceeds the quantity
\* reserved for it.
C39_ReleaseOnlyAfterReserve ==
  [][ ( /\ lastCall'.op \in {"notifyObservers", "changeOrderStatus"}
        /\ <<lastCall'.previousStatus, lastCall'.newStatus>> \in LegalStatusChanges )
        => inventory'.released <= inventory'.reserved ]_vars

====
